---- MODULE Spec2Model ----
(***************************************************************************)
(* Legal-document analysis pipeline (OptimizedLegalAnalyzer, ce2.py):      *)
(* page chunking, per-chunk LLM analysis with clause validation, and the   *)
(* aggregation of the chunk reports into one bounded, ranked report.       *)
(*                                                                         *)
(* Python values are modelled as follows.                                  *)
(*   str    a sequence of one-character strings, so that lower(), upper(), *)
(*          strip() and slicing are computed character by character;       *)
(*   dict   a record; a key that is absent holds NoKey (strings) or NoPage *)
(*          (page_number), and .get(key, default) is Get / GetPage;        *)
(*   list   a sequence.                                                    *)
(***************************************************************************)
EXTENDS Integers, Sequences, FiniteSets, TLC

VARIABLES
    pc,                  \* where the call stands
    pages,               \* analyze_document: the loaded Documents
    chunks,              \* analyze_document: the chunk texts
    idx,                 \* analyze_document: index of the chunk in the loop
    response,            \* _analyze_chunk: the LLM response just received
    chunk_result,        \* analyze_document: what _analyze_chunk just returned
    replies,             \* history: the kind of every LLM response so far
    outcomes,            \* history: every chunk_result so far
    successful_reports,  \* analyze_document: the usable chunk results
    sleeps,              \* history: the time.sleep(2) calls made
    reports,             \* _aggregate_reports: its argument in a direct call
    result,              \* the dict returned
    again,               \* the dict a second call on the same reports returns
    events,              \* history: calls, returns, delays, aggregation
    call,                \* a function outside the analyzer: its arguments
    returned,            \* a function outside the analyzer: what it returned
    chatbot              \* a LegalDocumentChatbot object: its attributes

vars == <<pc, pages, chunks, idx, response, chunk_result, replies, outcomes,
          successful_reports, sleeps, reports, result, again, events,
          call, returned, chatbot>>

----------------------------------------------------------------------------
(* Bounds of the model *)

\* pages of a PDF given to analyze_document in the full pipeline
MaxPages == 3
\* pages of a PDF in the chunking-only specification
MaxSplitPages == 6
\* entries of the 'clauses' array of one LLM response
MaxEntries == 2
\* clauses of a list of chunk reports handed directly to _aggregate_reports
MaxClauses == 3
\* clauses of the long lists (more candidates than the report keeps)
MaxLong == 9
\* clauses of the first chunk report handed to clause_extraction.py
MaxTitled == 2

(* Program constants *)

\* all_clauses[:6]
TopN == 6
\* .lower().strip()[:100]
SigLen == 100
\* min(i + 2, len(pages))
Window == 2
\* range(0, len(pages), 1)
Stride == 1
\* priority_order.get(..., 2)
OtherPriority == 2
\* elif len(clauses) > 3
ManyClauses == 3

----------------------------------------------------------------------------
(* Strings *)

Uppers == <<"A","B","C","D","E","F","G","H","I","J","K","L","M",
            "N","O","P","Q","R","S","T","U","V","W","X","Y","Z">>
Lowers == <<"a","b","c","d","e","f","g","h","i","j","k","l","m",
            "n","o","p","q","r","s","t","u","v","w","x","y","z">>
Whitespace == {" ", "\t", "\n"}

\* the upper-case and lower-case forms of the letters
LetterIndex == [c \in {Uppers[i] : i \in 1..Len(Uppers)} \cup {Lowers[i] : i \in 1..Len(Lowers)} |->
                   CHOOSE i \in 1..Len(Uppers) : Uppers[i] = c \/ Lowers[i] = c]

UpperChar(c) == IF c \in DOMAIN LetterIndex THEN Uppers[LetterIndex[c]] ELSE c

LowerChar(c) == IF c \in DOMAIN LetterIndex THEN Lowers[LetterIndex[c]] ELSE c

\* str.upper()
Upper(s) == [i \in 1..Len(s) |-> UpperChar(s[i])]

\* str.lower()
Lower(s) == [i \in 1..Len(s) |-> LowerChar(s[i])]

\* str.strip(): leading and trailing whitespace removed
Strip(s) ==
    LET keep == {i \in 1..Len(s) : s[i] \notin Whitespace}
    IN  IF keep = {} THEN <<>>
        ELSE SubSeq(s, CHOOSE i \in keep : \A j \in keep : i <= j,
                       CHOOSE i \in keep : \A j \in keep : j <= i)

\* s[:n]
Prefix(s, n) == SubSeq(s, 1, IF Len(s) < n THEN Len(s) ELSE n)

\* a key the dict does not hold
NoKey == <<"<absent>">>
\* a value that is not a str (None, a number): it has no .lower()/.upper()
NotAStr == <<"<not a str>">>
\* page_number absent from the dict
NoPage == -1

\* dict.get(key, default) for a string-valued key
Get(v, default) == IF v = NoKey THEN default ELSE v

\* clause.get('page_number', 0)
GetPage(clause) == IF clause.page_number = NoPage THEN 0 ELSE clause.page_number

HIGH == <<"H","I","G","H">>
CRITICAL == <<"C","R","I","T","I","C","A","L">>
LOW == <<"L","O","W">>
UNKNOWN == <<"U","N","K","N","O","W","N">>

RiskLevel == {HIGH, CRITICAL}

----------------------------------------------------------------------------
(* Clauses, reports and results *)

\* a clause dict; is_object is FALSE for a list entry that is not a dict
Clause(title, summary, risk, page) ==
    [is_object |-> TRUE, clause_title |-> title, clause_summary |-> summary,
     risk_level |-> risk, risk_explanation |-> <<"w","h","y">>,
     page_number |-> page]

NotADict ==
    [is_object |-> FALSE, clause_title |-> NoKey, clause_summary |-> NoKey,
     risk_level |-> NoKey, risk_explanation |-> NoKey, page_number |-> NoPage]

\* a chunk report dict: its keys, and the value under 'clauses'
Report(keys, is_list, clauses) ==
    [keys |-> keys, clauses_is_list |-> is_list, clauses |-> clauses]

\* {} as returned by a failed _analyze_chunk
EmptyDict == Report({}, FALSE, <<>>)

\* the dict a call returns; refs are the input positions <<report, clause>>
\* of the dict objects the 'clauses' list holds references to
NoResult ==
    [keys |-> {}, summary |-> <<>>, clauses |-> <<>>, refs |-> <<>>,
     error |-> "", partial_data |-> <<>>]

ErrorResult(msg) == [NoResult EXCEPT !.keys = {"error"}, !.error = msg]

----------------------------------------------------------------------------
(* _aggregate_reports *)

\* for report in reports: clauses = report.get("clauses", []);
\* if isinstance(clauses, list): for clause in clauses
RECURSIVE ClauseRefsFrom(_, _)
ClauseRefsFrom(reps, r) ==
    IF r > Len(reps) THEN <<>>
    ELSE (IF "clauses" \in reps[r].keys /\ reps[r].clauses_is_list
          THEN [c \in 1..Len(reps[r].clauses) |-> <<r, c>>]
          ELSE <<>>) \o ClauseRefsFrom(reps, r + 1)

ClauseRefs(reps) == ClauseRefsFrom(reps, 1)

ClauseAt(reps, ref) == reps[ref[1]].clauses[ref[2]]

\* summary_start = clause.get('clause_summary', '').lower().strip()[:100]
SummaryStart(clause) ==
    Prefix(Strip(Lower(Get(clause.clause_summary, <<>>))), SigLen)

\* mutant: the summary is not lower-cased
ClauseSignatureCased(clause) ==
    <<Prefix(Strip(Get(clause.clause_summary, <<>>)), SigLen), GetPage(clause)>>

\* clause_signature = (summary_start, clause.get('page_number', 0))
ClauseSignature(clause) == <<SummaryStart(clause), GetPage(clause)>>

\* risk_level = clause.get('risk_level', '').upper()
RiskUpper(clause) == Upper(Get(clause.risk_level, <<>>))

\* mutant: LOW is let through as well
IsHighRiskOrLow(clause) == RiskUpper(clause) \in {HIGH, CRITICAL, LOW}

\* risk_level in ['HIGH', 'CRITICAL']
IsHighRisk(clause) == RiskUpper(clause) \in {HIGH, CRITICAL}

\* clause.get(...) on a non-dict, or .lower()/.upper() on a non-str, raises
ClauseRaises(clause) ==
    \/ ~clause.is_object
    \/ clause.clause_summary = NotAStr
    \/ clause.risk_level = NotAStr

\* mutant: every clause registers its signature, then the filter is applied
RECURSIVE CollectClausesSeenFirst(_, _, _, _)
CollectClausesSeenFirst(reps, refs, seen_clauses, all_clauses) ==
    IF refs = <<>> THEN all_clauses
    ELSE LET clause == ClauseAt(reps, Head(refs))
             clause_signature == ClauseSignature(clause)
         IN  CollectClausesSeenFirst(reps, Tail(refs),
                 seen_clauses \cup {clause_signature},
                 IF IsHighRisk(clause) /\ clause_signature \notin seen_clauses
                     THEN Append(all_clauses, Head(refs))
                     ELSE all_clauses)

\* the de-duplicating loop: all_clauses, given seen_clauses
RECURSIVE CollectClauses(_, _, _, _)
CollectClauses(reps, refs, seen_clauses, all_clauses) ==
    IF refs = <<>> THEN all_clauses
    ELSE LET clause == ClauseAt(reps, Head(refs))
             clause_signature == ClauseSignature(clause)
         IN  IF IsHighRisk(clause) /\ clause_signature \notin seen_clauses
             THEN CollectClauses(reps, Tail(refs),
                                 seen_clauses \cup {clause_signature},
                                 Append(all_clauses, Head(refs)))
             ELSE CollectClauses(reps, Tail(refs), seen_clauses, all_clauses)

\* priority_order.get(x.get('risk_level', '').upper(), 2)
Priority(clause) ==
    CASE RiskUpper(clause) = CRITICAL -> 0
      [] RiskUpper(clause) = HIGH -> 1
      [] OTHER -> OtherPriority

\* the sort key (priority, page_number)
SortKey(clause) == <<Priority(clause), GetPage(clause)>>

\* tuple comparison k1 <= k2
KeyLeq(k1, k2) == k1[1] < k2[1] \/ (k1[1] = k2[1] /\ k1[2] <= k2[2])

\* x placed behind every element whose key is <= its own (list.sort is stable)
RECURSIVE InsertByKey(_, _, _)
InsertByKey(reps, sorted, x) ==
    IF sorted = <<>> THEN <<x>>
    ELSE IF KeyLeq(SortKey(ClauseAt(reps, Head(sorted))), SortKey(ClauseAt(reps, x)))
         THEN <<Head(sorted)>> \o InsertByKey(reps, Tail(sorted), x)
         ELSE <<x>> \o sorted

RECURSIVE SortFrom(_, _, _)
SortFrom(reps, refs, sorted) ==
    IF refs = <<>> THEN sorted
    ELSE SortFrom(reps, Tail(refs), InsertByKey(reps, sorted, Head(refs)))

\* mutant: the list is cut first, and what is left is sorted
SortClausesOfFirstSix(reps, all_clauses) ==
    SortFrom(reps, Prefix(all_clauses, TopN), <<>>)

\* mutant: the list is left in arrival order
SortClausesSkipped(reps, all_clauses) == all_clauses

\* all_clauses.sort(key=...)
SortClauses(reps, all_clauses) == SortFrom(reps, all_clauses, <<>>)

\* mutant: the list is not cut
TopClausesUncut(all_clauses) == all_clauses

\* top_clauses = all_clauses[:6]
TopClauses(all_clauses) == Prefix(all_clauses, TopN)

\* risk_counts[level]: the clauses whose upper-cased level is `level`
RiskCount(clauses, level) ==
    Cardinality({i \in 1..Len(clauses) :
                    Upper(Get(clauses[i].risk_level, UNKNOWN)) = level})

SummaryPart(text, counts) == [text |-> text, counts |-> counts]

\* mutant: the number of clauses is tested before the critical count
GenerateComprehensiveSummaryByLength(reps, clauses) ==
    IF clauses = <<>>
    THEN <<SummaryPart("No high-risk clauses identified in the document based on the specified criteria.", <<>>)>>
    ELSE LET critical_count == RiskCount(clauses, CRITICAL)
             high_count == RiskCount(clauses, HIGH)
         IN  <<SummaryPart("Document Analysis: Legal Document (Contract)", <<>>)>>
             \o (IF critical_count > 0 \/ high_count > 0
                 THEN <<SummaryPart("Identified {} concerning clauses: {} critical, {} high-risk.",
                                    <<Len(clauses), critical_count, high_count>>)>>
                 ELSE <<>>)
             \o (IF Len(clauses) > ManyClauses
                 THEN <<SummaryPart("Multiple high-risk elements present - recommend thorough legal review before proceeding.", <<>>)>>
                 ELSE IF critical_count > 0
                 THEN <<SummaryPart("This document contains critical issues requiring immediate legal review and likely negotiation before signing.", <<>>)>>
                 ELSE <<SummaryPart("Document contains some concerning provisions that should be reviewed with legal counsel.", <<>>)>>)

\* _generate_comprehensive_summary: the sentences joined by " "; a sentence
\* with formatted numbers carries them in counts (a count of 0 stands for a
\* phrase that is left out)
GenerateComprehensiveSummary(reps, clauses) ==
    IF clauses = <<>>
    THEN <<SummaryPart("No high-risk clauses identified in the document based on the specified criteria.", <<>>)>>
    ELSE LET critical_count == RiskCount(clauses, CRITICAL)
             high_count == RiskCount(clauses, HIGH)
         IN  <<SummaryPart("Document Analysis: Legal Document (Contract)", <<>>)>>
             \o (IF critical_count > 0 \/ high_count > 0
                 THEN <<SummaryPart("Identified {} concerning clauses: {} critical, {} high-risk.",
                                    <<Len(clauses), critical_count, high_count>>)>>
                 ELSE <<>>)
             \o (IF critical_count > 0
                 THEN <<SummaryPart("This document contains critical issues requiring immediate legal review and likely negotiation before signing.", <<>>)>>
                 ELSE IF Len(clauses) > ManyClauses
                 THEN <<SummaryPart("Multiple high-risk elements present - recommend thorough legal review before proceeding.", <<>>)>>
                 ELSE <<SummaryPart("Document contains some concerning provisions that should be reviewed with legal counsel.", <<>>)>>)

\* mutant: seen_clauses is kept from one call to the next
AggregateReportsKeptSeen(reps) ==
    IF reps = <<>> THEN ErrorResult("No reports to aggregate")
    ELSE IF \E i \in 1..Len(ClauseRefs(reps)) :
                ClauseRaises(ClauseAt(reps, ClauseRefs(reps)[i]))
    THEN [ErrorResult("Failed to aggregate reports") EXCEPT
             !.keys = {"error", "partial_data"}, !.partial_data = reps]
    ELSE LET kept == {ClauseSignature(result.clauses[i]) : i \in 1..Len(result.clauses)}
             all_clauses ==
                 SortClauses(reps, CollectClauses(reps, ClauseRefs(reps), kept, <<>>))
             top_clauses == TopClauses(all_clauses)
             clauses == [i \in 1..Len(top_clauses) |-> ClauseAt(reps, top_clauses[i])]
         IN  [NoResult EXCEPT
                 !.keys = {"summary", "clauses"},
                 !.summary = GenerateComprehensiveSummary(reps, clauses),
                 !.clauses = clauses,
                 !.refs = top_clauses]

\* _aggregate_reports: the dict it returns for the list of chunk reports
AggregateReports(reps) ==
    IF reps = <<>> THEN ErrorResult("No reports to aggregate")
    ELSE IF \E i \in 1..Len(ClauseRefs(reps)) :
                ClauseRaises(ClauseAt(reps, ClauseRefs(reps)[i]))
    THEN [ErrorResult("Failed to aggregate reports") EXCEPT
             !.keys = {"error", "partial_data"}, !.partial_data = reps]
    ELSE LET all_clauses ==
                 SortClauses(reps, CollectClauses(reps, ClauseRefs(reps), {}, <<>>))
             top_clauses == TopClauses(all_clauses)
             clauses == [i \in 1..Len(top_clauses) |-> ClauseAt(reps, top_clauses[i])]
         IN  [NoResult EXCEPT
                 !.keys = {"summary", "clauses"},
                 !.summary = GenerateComprehensiveSummary(reps, clauses),
                 !.clauses = clauses,
                 !.refs = top_clauses]

----------------------------------------------------------------------------
(* _aggregate_reports of clause_extraction.py *)

\* "Legal Document" and "Contract", the defaults of the summary
LegalDocument == <<"L","e","g","a","l"," ","D","o","c","u","m","e","n","t">>
Contract == <<"C","o","n","t","r","a","c","t">>

\* a chunk report dict that may hold 'document_title' and 'document_type'
TitledReport(title, type, clauses) ==
    [keys |-> {"clauses"}
              \cup (IF title = NoKey THEN {} ELSE {"document_title"})
              \cup (IF type = NoKey THEN {} ELSE {"document_type"}),
     clauses_is_list |-> TRUE, clauses |-> clauses,
     document_title |-> title, document_type |-> type]

\* mutant: the title-keyed aggregator keyed by the summary as well
ClauseSignatureBySummary(clause) == <<SummaryStart(clause), GetPage(clause)>>

\* clause_signature = (clause.get('clause_title', '').lower().strip(),
\*                     clause.get('page_number', 0))
ClauseSignatureByTitle(clause) ==
    <<Strip(Lower(Get(clause.clause_title, <<>>))), GetPage(clause)>>

\* clause.get(...) on a non-dict, or .lower()/.upper() on a non-str, raises
ClauseRaisesByTitle(clause) ==
    \/ ~clause.is_object
    \/ clause.clause_title = NotAStr
    \/ clause.risk_level = NotAStr

\* the de-duplicating loop of clause_extraction.py
RECURSIVE CollectClausesByTitle(_, _, _, _)
CollectClausesByTitle(reps, refs, seen_clauses, all_clauses) ==
    IF refs = <<>> THEN all_clauses
    ELSE LET clause == ClauseAt(reps, Head(refs))
             clause_signature == ClauseSignatureByTitle(clause)
         IN  IF IsHighRisk(clause) /\ clause_signature \notin seen_clauses
             THEN CollectClausesByTitle(reps, Tail(refs),
                                        seen_clauses \cup {clause_signature},
                                        Append(all_clauses, Head(refs)))
             ELSE CollectClausesByTitle(reps, Tail(refs), seen_clauses, all_clauses)

\* _generate_comprehensive_summary of clause_extraction.py: the first
\* sentence is formatted with the title and type of the first report
GenerateComprehensiveSummaryTitled(reps, clauses) ==
    IF clauses = <<>>
    THEN <<SummaryPart("No high-risk clauses identified in the document.", <<>>)>>
    ELSE LET doc_title == IF reps = <<>> THEN LegalDocument
                          ELSE Get(reps[1].document_title, LegalDocument)
             doc_type == IF reps = <<>> THEN Contract
                         ELSE Get(reps[1].document_type, Contract)
             critical_count == RiskCount(clauses, CRITICAL)
             high_count == RiskCount(clauses, HIGH)
         IN  <<SummaryPart("Document Analysis: {} ({})", <<doc_title, doc_type>>)>>
             \o (IF critical_count > 0 \/ high_count > 0
                 THEN <<SummaryPart("Identified {} concerning clauses: {} critical, {} high-risk.",
                                    <<Len(clauses), critical_count, high_count>>)>>
                 ELSE <<>>)
             \o (IF critical_count > 0
                 THEN <<SummaryPart("This document contains critical issues requiring immediate legal review and likely negotiation before signing.", <<>>)>>
                 ELSE IF Len(clauses) > ManyClauses
                 THEN <<SummaryPart("Multiple high-risk elements present - recommend thorough legal review before proceeding.", <<>>)>>
                 ELSE <<SummaryPart("Document contains some concerning provisions that should be reviewed with legal counsel.", <<>>)>>)

\* _aggregate_reports of clause_extraction.py
AggregateReportsByTitle(reps) ==
    IF reps = <<>> THEN ErrorResult("No reports to aggregate")
    ELSE IF \E i \in 1..Len(ClauseRefs(reps)) :
                ClauseRaisesByTitle(ClauseAt(reps, ClauseRefs(reps)[i]))
    THEN [ErrorResult("Failed to aggregate reports") EXCEPT
             !.keys = {"error", "partial_data"}, !.partial_data = reps]
    ELSE LET all_clauses ==
                 SortClauses(reps, CollectClausesByTitle(reps, ClauseRefs(reps), {}, <<>>))
             top_clauses == TopClauses(all_clauses)
             clauses == [i \in 1..Len(top_clauses) |-> ClauseAt(reps, top_clauses[i])]
         IN  [NoResult EXCEPT
                 !.keys = {"summary", "clauses"},
                 !.summary = GenerateComprehensiveSummaryTitled(reps, clauses),
                 !.clauses = clauses,
                 !.refs = top_clauses]

----------------------------------------------------------------------------
(* _analyze_chunk *)

\* ClauseAnalysis(**clause) validates: every field present and of its type,
\* risk_level a member of the RiskLevel enum
ValidClause(clause) ==
    /\ clause.is_object
    /\ clause.clause_title \notin {NoKey, NotAStr}
    /\ clause.clause_summary \notin {NoKey, NotAStr}
    /\ clause.risk_level \in RiskLevel
    /\ clause.risk_explanation \notin {NoKey, NotAStr}
    /\ clause.page_number # NoPage

\* what model.generate_content returned for one chunk:
\*   kind "exception"  the API call raised
\*        "empty"      response.text is empty
\*        "text"       response.text is not JSON
\*        "json"       response.text parses; is_object tells a JSON object
\*                     from any other JSON value, and keys / clauses_is_list /
\*                     clauses are those of the object
LlmResponse(kind, is_object, keys, is_list, clauses) ==
    [kind |-> kind, is_object |-> is_object, keys |-> keys,
     clauses_is_list |-> is_list, clauses |-> clauses]

NoResponse == LlmResponse("none", FALSE, {}, FALSE, <<>>)

\* mutant: a response that is not JSON counts as an empty clause list
AnalyzeChunkLenient(resp) ==
    IF resp.kind = "text" THEN Report({"clauses"}, TRUE, <<>>)
    ELSE IF resp.kind # "json" \/ ~resp.is_object THEN EmptyDict
    ELSE IF "clauses" \in resp.keys /\ resp.clauses_is_list
    THEN IF \E i \in 1..Len(resp.clauses) : ~resp.clauses[i].is_object
         THEN EmptyDict
         ELSE Report(resp.keys, TRUE, SelectSeq(resp.clauses, ValidClause))
    ELSE Report(resp.keys \cup {"clauses"}, TRUE, <<>>)

\* _analyze_chunk: the chunk_data it returns for the response it received
AnalyzeChunk(resp) ==
    IF resp.kind # "json" THEN EmptyDict
    ELSE IF ~resp.is_object THEN EmptyDict
    ELSE IF "clauses" \in resp.keys /\ resp.clauses_is_list
    THEN IF \E i \in 1..Len(resp.clauses) : ~resp.clauses[i].is_object
         THEN EmptyDict
         ELSE Report(resp.keys, TRUE, SelectSeq(resp.clauses, ValidClause))
    ELSE Report(resp.keys \cup {"clauses"}, TRUE, <<>>)

\* if chunk_result and 'clauses' in chunk_result
ChunkSucceeded(chunk) == chunk.keys # {} /\ "clauses" \in chunk.keys

----------------------------------------------------------------------------
(* DocumentProcessor.load_document and the chunking of analyze_document *)

\* a Document: its text (named by the PDF page it came from, 0 for a
\* document that is not a PDF page) and metadata['page'], NoPage if absent
Document(content, page) == [page_content |-> content, page |-> page]

\* the single Document of a text or Word file, or of a PDF without text
SingleDocument == <<Document(0, NoPage)>>

RECURSIVE PdfDocuments(_)
PdfDocuments(with_text) ==
    IF with_text = {} THEN <<>>
    ELSE LET p == CHOOSE x \in with_text : \A y \in with_text : x <= y
         IN  <<Document(p, p)>> \o PdfDocuments(with_text \ {p})

\* load_document: one Document per PDF page that has text, in page order
LoadDocument(with_text) ==
    IF with_text = {} THEN SingleDocument ELSE PdfDocuments(with_text)

LoadedDocuments(max_pages) == {LoadDocument(S) : S \in SUBSET (1..max_pages)}

Min(a, b) == IF a < b THEN a ELSE b

\* "--- PAGE {p.metadata.get('page', i+j+1)} ---\n{p.page_content}" joined:
\* the labelled pages of the chunk (j counts from 1 here)
ChunkText(chunk_pages, i) ==
    [j \in 1..Len(chunk_pages) |->
        [label |-> IF chunk_pages[j].page = NoPage THEN i + j
                   ELSE chunk_pages[j].page,
         page_content |-> chunk_pages[j].page_content]]

\* the body of "for i in range(0, len(pages), 1)", from index i on
RECURSIVE SplitFrom(_, _, _)
SplitFrom(doc, i, acc) ==
    IF i >= Len(doc) THEN acc
    ELSE LET chunk_end == Min(i + Window, Len(doc))
             chunk_pages == SubSeq(doc, i + 1, chunk_end)
         IN  IF Len(chunk_pages) = 1 /\ i > 0
             THEN SplitFrom(doc, i + Stride, acc)
             ELSE IF chunk_end >= Len(doc)
                  THEN Append(acc, ChunkText(chunk_pages, i))
                  ELSE SplitFrom(doc, i + Stride,
                                 Append(acc, ChunkText(chunk_pages, i)))

\* mutant: windows that do not overlap (a stride of 2)
SplitPagesDisjoint(doc) ==
    [k \in 1..((Len(doc) + 1) \div 2) |->
        ChunkText(SubSeq(doc, 2 * k - 1, Min(2 * k, Len(doc))), 2 * k - 2)]

\* mutant: a window starts at every page, the last page included
SplitPagesWithTail(doc) ==
    [k \in 1..Len(doc) |-> ChunkText(SubSeq(doc, k, Min(k + 1, Len(doc))), k - 1)]

\* mutant: an empty page list still gives one (empty) chunk
SplitPagesPadded(doc) ==
    IF doc = <<>> THEN <<ChunkText(<<>>, 0)>> ELSE SplitFrom(doc, 0, <<>>)

\* chunks, as the loop of analyze_document leaves it
SplitPages(doc) == SplitFrom(doc, 0, <<>>)

----------------------------------------------------------------------------
(* doc_classification.py *)

TRANSACTIONAL == <<"T","R","A","N","S","A","C","T","I","O","N","A","L">>
DISPUTES == <<"D","I","S","P","U","T","E","S">>
CORPORATE == <<"C","O","R","P","O","R","A","T","E">>
REGULATORY == <<"R","E","G","U","L","A","T","O","R","Y">>
INTELLECTUAL_PROPERTY == <<"I","N","T","E","L","L","E","C","T","U","A","L","_","P","R","O","P","E","R","T","Y">>
OTHERS == <<"O","T","H","E","R","S">>

CATEGORIES ==
    <<TRANSACTIONAL, DISPUTES, CORPORATE, REGULATORY, INTELLECTUAL_PROPERTY, OTHERS>>

\* the keyword lists of classify_document_simple
transactional_keywords ==
    <<<<"c","o","n","t","r","a","c","t">>,
     <<"a","g","r","e","e","m","e","n","t">>,
     <<"l","e","a","s","e">>,
     <<"e","m","p","l","o","y","m","e","n","t">>,
     <<"s","e","r","v","i","c","e">>,
     <<"p","u","r","c","h","a","s","e">>,
     <<"s","a","l","e">>,
     <<"r","e","n","t","a","l">>,
     <<"v","e","n","d","o","r">>,
     <<"s","u","p","p","l","i","e","r">>>>

disputes_keywords ==
    <<<<"l","a","w","s","u","i","t">>,
     <<"l","i","t","i","g","a","t","i","o","n">>,
     <<"c","o","u","r","t">>,
     <<"p","l","a","i","n","t","i","f","f">>,
     <<"d","e","f","e","n","d","a","n","t">>,
     <<"j","u","d","g","m","e","n","t">>,
     <<"d","i","s","p","u","t","e">>,
     <<"a","r","b","i","t","r","a","t","i","o","n">>,
     <<"m","e","d","i","a","t","i","o","n">>,
     <<"s","e","t","t","l","e","m","e","n","t">>>>

corporate_keywords ==
    <<<<"i","n","c","o","r","p","o","r","a","t","i","o","n">>,
     <<"b","y","l","a","w","s">>,
     <<"b","o","a","r","d">>,
     <<"s","h","a","r","e","h","o","l","d","e","r">>,
     <<"r","e","s","o","l","u","t","i","o","n">>,
     <<"a","r","t","i","c","l","e","s">>,
     <<"c","h","a","r","t","e","r">>,
     <<"g","o","v","e","r","n","a","n","c","e">>,
     <<"d","i","r","e","c","t","o","r">>>>

regulatory_keywords ==
    <<<<"p","e","r","m","i","t">>,
     <<"l","i","c","e","n","s","e">>,
     <<"c","o","m","p","l","i","a","n","c","e">>,
     <<"r","e","g","u","l","a","t","o","r","y">>,
     <<"f","i","l","i","n","g">>,
     <<"r","e","g","u","l","a","t","i","o","n">>,
     <<"s","t","a","t","u","t","e">>,
     <<"c","o","d","e">>,
     <<"o","r","d","i","n","a","n","c","e">>>>

ip_keywords ==
    <<<<"p","a","t","e","n","t">>,
     <<"t","r","a","d","e","m","a","r","k">>,
     <<"c","o","p","y","r","i","g","h","t">>,
     <<"i","n","t","e","l","l","e","c","t","u","a","l">>,
     <<"i","p">>,
     <<"i","n","v","e","n","t","i","o","n">>,
     <<"d","e","s","i","g","n">>,
     <<"t","r","a","d","e"," ","s","e","c","r","e","t">>>>

\* word in text_lower
Contains(text, word) ==
    \E i \in 0..(Len(text) - Len(word)) : SubSeq(text, i + 1, i + Len(word)) = word

\* sum(1 for word in keywords if word in text_lower)
KeywordScore(text_lower, keywords) ==
    Cardinality({k \in 1..Len(keywords) : Contains(text_lower, keywords[k])})

\* the scores dict, in insertion order
Scores(text_lower) ==
    <<[category |-> TRANSACTIONAL, score |-> KeywordScore(text_lower, transactional_keywords)],
      [category |-> DISPUTES, score |-> KeywordScore(text_lower, disputes_keywords)],
      [category |-> CORPORATE, score |-> KeywordScore(text_lower, corporate_keywords)],
      [category |-> REGULATORY, score |-> KeywordScore(text_lower, regulatory_keywords)],
      [category |-> INTELLECTUAL_PROPERTY, score |-> KeywordScore(text_lower, ip_keywords)]>>

\* classify_document_simple: the first category holding the highest score,
\* OTHERS when the text is blank or no keyword occurs
ClassifyDocumentSimple(document_text) ==
    IF document_text = <<>> \/ Strip(document_text) = <<>> THEN OTHERS
    ELSE LET scores == Scores(Lower(document_text))
             max_score == CHOOSE m \in {scores[k].score : k \in 1..Len(scores)} :
                             \A k \in 1..Len(scores) : scores[k].score <= m
         IN  IF max_score > 0
             THEN scores[CHOOSE k \in 1..Len(scores) :
                             /\ scores[k].score = max_score
                             /\ \A j \in 1..(k - 1) : scores[j].score # max_score].category
             ELSE OTHERS

\* what a function call comes to: a value returned or an exception raised
Returns(value) == [raised |-> FALSE, value |-> value]
Raises(exception) == [raised |-> TRUE, value |-> exception]

\* s.split()[0]: the characters up to the first whitespace; IndexError when
\* s holds nothing but whitespace
FirstWord(s) ==
    LET t == Strip(s)
        gaps == {i \in 1..Len(t) : t[i] \in Whitespace}
    IN  IF t = <<>> THEN Raises("IndexError")
        ELSE IF gaps = {} THEN Returns(t)
        ELSE Returns(SubSeq(t, 1, (CHOOSE i \in gaps : \A j \in gaps : i <= j) - 1))

\* get_gemini_llm and chain.invoke: no LLM (no API key, no LangChain), a call
\* that raises, or the text of the answer
Llm(kind, answer) == [kind |-> kind, answer |-> answer]

\* mutant: the answer's first word is returned without the membership test
ClassifyDocumentWithAiUnchecked(document_text, llm) ==
    IF llm.kind = "none" THEN Returns(ClassifyDocumentSimple(document_text))
    ELSE IF llm.kind = "raises" THEN Returns(ClassifyDocumentSimple(document_text))
    ELSE LET classification == FirstWord(Upper(Strip(llm.answer)))
         IN  IF classification.raised
             THEN Returns(ClassifyDocumentSimple(document_text))
             ELSE Returns(classification.value)

\* classify_document_with_ai; "except Exception" turns a raising chain and
\* the IndexError of an empty answer into the simple classification
ClassifyDocumentWithAi(document_text, llm) ==
    IF llm.kind = "none" THEN Returns(ClassifyDocumentSimple(document_text))
    ELSE IF llm.kind = "raises" THEN Returns(ClassifyDocumentSimple(document_text))
    ELSE LET classification == FirstWord(Upper(Strip(llm.answer)))
         IN  IF classification.raised
             THEN Returns(ClassifyDocumentSimple(document_text))
             ELSE IF \E k \in 1..Len(CATEGORIES) : CATEGORIES[k] = classification.value
             THEN Returns(classification.value)
             ELSE Returns(OTHERS)

\* "\n".join(parts)
RECURSIVE JoinLines(_)
JoinLines(parts) ==
    IF parts = <<>> THEN <<>>
    ELSE IF Len(parts) = 1 THEN parts[1]
    ELSE parts[1] \o <<"\n">> \o JoinLines(Tail(parts))

NonEmpty(text) == text # <<>>

\* the file classify_document is given: whether it exists, whether its
\* extension is supported, and the page texts load_document returns for it
\* (loads = FALSE: load_document raises)
File(exists, supported, loads, page_contents) ==
    [exists |-> exists, supported |-> supported, loads |-> loads,
     page_contents |-> page_contents]

\* classify_document
ClassifyDocument(file, llm) ==
    IF ~file.exists THEN Returns(OTHERS)
    ELSE IF ~file.supported THEN Returns(OTHERS)
    ELSE IF ~file.loads THEN Returns(OTHERS)
    ELSE IF file.page_contents = <<>> THEN Returns(OTHERS)
    ELSE LET full_text == JoinLines(SelectSeq(file.page_contents, NonEmpty))
         IN  IF Strip(full_text) = <<>> THEN Returns(OTHERS)
             ELSE LET classification == ClassifyDocumentWithAi(full_text, llm)
                  IN  IF classification.raised THEN Returns(OTHERS)
                      ELSE classification

\* page texts
Text_empty == <<>>
Text_lease == <<"L","e","a","s","e"," ","a","g","r","e","e","m","e","n","t">>
Text_court == <<"c","o","u","r","t"," ","o","r","d","e","r">>

\* answers of the LLM
Answer_blank == <<" "," ">>

PageTexts ==
    {Text_empty, Text_lease, Text_court,
     <<" ","\n">>,
     <<"d","e","s","c","r","i","p","t","i","o","n">>,
     <<"b","o","a","r","d"," ","c","o","d","e">>,
     <<"h","e","l","l","o">>}

\* "", "  ", the labels in several spellings, and other words
Answers ==
    {<<>>, Answer_blank,
     TRANSACTIONAL, INTELLECTUAL_PROPERTY, OTHERS,
     <<"d","i","s","p","u","t","e","s","\n">>,
     <<" ","C","o","r","p","o","r","a","t","e"," ","l","a","w">>,
     <<"R","E","G","U","L","A","T","O","R","Y",".">>,
     <<"I","n","t","e","l","l","e","c","t","u","a","l"," ","P","r","o","p","e","r","t","y">>,
     <<"m","a","y","b","e">>}

Llms ==
    {Llm("none", <<>>), Llm("raises", <<>>)} \cup {Llm("answer", a) : a \in Answers}

\* a missing file, an unsupported extension, a file that fails to load, and
\* files of one or two pages
Files ==
    {File(FALSE, TRUE, FALSE, <<>>), File(TRUE, FALSE, FALSE, <<>>),
     File(TRUE, TRUE, FALSE, <<>>)}
    \cup {File(TRUE, TRUE, TRUE, <<t>>) : t \in PageTexts}
    \cup {File(TRUE, TRUE, TRUE, <<t, Text_court>>) : t \in {Text_empty, Text_lease}}

----------------------------------------------------------------------------
(* Inputs *)

SeqsUpTo(S, n) == UNION {[1..k -> S] : k \in 0..n}

Str_ab == <<"a","b">>
Str_Ab == <<" ","A","b"," ">>
Str_cd == <<"c","d">>
Str_high == <<"h","i","g","h">>
Title1 == <<"t","1">>
Title2 == <<"t","2">>

Xs(n) == [i \in 1..n |-> "x"]
\* two long summaries around the 100-character cut
LongA == <<" ">> \o Xs(SigLen - 1) \o <<"y">>
LongB == Xs(SigLen - 1)

\* the entries an LLM puts in a 'clauses' array
ValidHigh == Clause(Title1, Str_ab, HIGH, 1)
ValidCritical == Clause(Title2, Str_cd, CRITICAL, 2)
BadRisk == Clause(Title1, Str_ab, LOW, 1)
MissingField == Clause(Title1, NoKey, HIGH, 1)

Entries == {ValidHigh, ValidCritical, BadRisk, MissingField, NotADict}

Responses ==
    {LlmResponse(k, FALSE, {}, FALSE, <<>>) : k \in {"exception", "empty", "text", "json"}}
    \cup {LlmResponse("json", TRUE, ks, FALSE, <<>>) : ks \in {{}, {"document_title"}, {"clauses"}}}
    \cup {LlmResponse("json", TRUE, {"clauses"}, TRUE, es) : es \in SeqsUpTo(Entries, MaxEntries)}

\* clause dicts of reports handed to _aggregate_reports by any caller
RawClauses ==
    {Clause(Title1, Str_ab, r, 1) : r \in {HIGH, CRITICAL, LOW, Str_high, NoKey, NotAStr}}
    \cup {Clause(Title1, s, HIGH, 1) : s \in {Str_Ab, Str_cd, LongA, LongB}}
    \cup {Clause(Title1, Str_ab, HIGH, 2), Clause(Title1, Str_ab, HIGH, NoPage)}

\* the clauses put in reports whose 'clauses' is missing or not a list
PlainClauses == {Clause(Title1, Str_ab, HIGH, 1), Clause(Title1, Str_cd, HIGH, 1)}

\* a list of clauses as two reports, the second one with its clauses under
\* 'clauses' as a list, under 'clauses' but not as a list, or without the key
SplitInTwo(cs, second) ==
    LET h == (Len(cs) + 1) \div 2
    IN  <<Report({"clauses"}, TRUE, SubSeq(cs, 1, h)),
          Report(IF second = "no key" THEN {"document_title"} ELSE {"clauses"},
                 second = "list", SubSeq(cs, h + 1, Len(cs)))>>

RichInputs ==
    {<<>>}
    \cup {SplitInTwo(cs, "list") : cs \in SeqsUpTo(RawClauses, MaxClauses)}
    \cup {SplitInTwo(cs, second) : cs \in SeqsUpTo(PlainClauses, MaxClauses),
                                   second \in {"not a list", "no key"}}

\* long lists: the i-th of n clauses is on page n - i + 1, so all signatures
\* differ and arrive in descending page order; reports of two clauses each
LongClauses(risks) ==
    [i \in 1..Len(risks) |-> Clause(Title1, Str_ab, risks[i], Len(risks) - i + 1)]

RECURSIVE InPairs(_)
InPairs(cs) ==
    IF cs = <<>> THEN <<>>
    ELSE <<Report({"clauses"}, TRUE, Prefix(cs, 2))>>
         \o InPairs(SubSeq(cs, 3, Len(cs)))

LongInputs ==
    {InPairs(LongClauses(risks)) : risks \in SeqsUpTo({HIGH, CRITICAL}, MaxLong) \ {<<>>}}

\* [HIGH@5, CRITICAL@1, HIGH@1, CRITICAL@9], all signatures distinct
RankingScenario ==
    <<Report({"clauses"}, TRUE,
             <<Clause(Title1, Str_ab, HIGH, 5), Clause(Title1, Str_ab, CRITICAL, 1),
               Clause(Title1, Str_cd, HIGH, 1), Clause(Title1, Str_cd, CRITICAL, 9)>>)>>

AggregateInputs == RichInputs \cup LongInputs \cup {RankingScenario}

----------------------------------------------------------------------------
(* analyze_document, step by step *)

\* no call of a function outside the analyzer
NoCall == [fn |-> "none"]

\* no LegalDocumentChatbot has been made
NoChatbot ==
    [rag_chain |-> FALSE, llm |-> FALSE, chat_history |-> <<>>,
     page_summaries |-> <<>>]

\* an entry of the history: a call or return of _analyze_chunk for a chunk
\* number, a time.sleep(2) after it, or the call of _aggregate_reports
Event(op, chunk) == [op |-> op, chunk |-> chunk]

\* mutant: a delay after every chunk, the last one included
SleepsAfterEvery(i, n) == TRUE

\* if idx < len(chunks) - 1: time.sleep(2)
SleepsAfter(i, n) == i < n - 1

\* mutant: the loop is left after its first iteration
HasNextNever(i, n) == FALSE

\* for idx, chunk in enumerate(chunks): another iteration follows
HasNext(i, n) == i + 1 < n

\* mutant: a failed chunk is submitted again
AdvanceUnlessFailed(i) == IF ChunkSucceeded(chunk_result) THEN i + 1 ELSE i

\* enumerate: the next index
Advance(i) == i + 1

InitWith(docs) ==
    /\ pc = "load"
    /\ pages \in docs
    /\ chunks = <<>>
    /\ idx = 0
    /\ response = NoResponse
    /\ chunk_result = EmptyDict
    /\ replies = <<>>
    /\ outcomes = <<>>
    /\ successful_reports = <<>>
    /\ sleeps = 0
    /\ reports = <<>>
    /\ result = NoResult
    /\ again = NoResult
    /\ events = <<>>
    /\ call = NoCall
    /\ returned = NoCall
    /\ chatbot = NoChatbot

Init == InitWith(LoadedDocuments(MaxPages))

\* mutant: a failed chunk discards what was collected
CollectReportOrReset(successful, chunk) ==
    IF ChunkSucceeded(chunk) THEN Append(successful, chunk) ELSE <<>>

\* if chunk_result and 'clauses' in chunk_result:
\*     successful_reports.append(chunk_result)
CollectReport(successful, chunk) ==
    IF ChunkSucceeded(chunk) THEN Append(successful, chunk) ELSE successful

\* mutant: no usable chunk gives an empty report
ReportOrEmptyReport(successful) ==
    IF successful = <<>>
    THEN [NoResult EXCEPT !.keys = {"summary", "clauses"},
                          !.summary = GenerateComprehensiveSummary(<<>>, <<>>)]
    ELSE AggregateReports(successful)

\* if not successful_reports: return {"error": ...}
\* return self._aggregate_reports(successful_reports)
ReportOrError(successful) ==
    IF successful = <<>>
    THEN ErrorResult("All chunk analyses failed. Check your API quota and document format.")
    ELSE AggregateReports(successful)

\* the chunking loop
SplitDocument ==
    /\ pc = "load"
    /\ UNCHANGED <<call, returned, chatbot>>
    /\ chunks' = SplitPages(pages)
    /\ pc' = IF SplitPages(pages) = <<>> THEN "aggregate" ELSE "analyze"
    /\ UNCHANGED <<pages, idx, response, chunk_result, replies, outcomes,
                   successful_reports, sleeps, reports, result, again, events>>

\* chunk_result = self._analyze_chunk(chunk, idx + 1): the call is made
CallAnalyzeChunk ==
    /\ pc = "analyze"
    /\ UNCHANGED <<call, returned, chatbot>>
    /\ events' = Append(events, Event("call", idx + 1))
    /\ pc' = "in_chunk"
    /\ UNCHANGED <<pages, chunks, idx, response, chunk_result, replies,
                   outcomes, successful_reports, sleeps, reports, result,
                   again>>

\* the rest of one iteration of "for idx, chunk in enumerate(chunks)" up to
\* the sleep: the model answers, _analyze_chunk returns, a usable result is
\* appended
AnalyzeNextChunk ==
    /\ pc = "in_chunk"
    /\ UNCHANGED <<call, returned, chatbot>>
    /\ \E resp \in Responses :
          /\ response' = resp
          /\ chunk_result' = AnalyzeChunk(resp)
          /\ replies' = Append(replies, resp.kind)
          /\ outcomes' = Append(outcomes, AnalyzeChunk(resp))
          /\ successful_reports' =
                CollectReport(successful_reports, AnalyzeChunk(resp))
    /\ events' = Append(events, Event("return", idx + 1))
    /\ pc' = IF SleepsAfter(idx, Len(chunks)) THEN "sleep"
             ELSE IF HasNext(idx, Len(chunks)) THEN "analyze"
             ELSE "aggregate"
    /\ idx' = IF ~SleepsAfter(idx, Len(chunks)) /\ HasNext(idx, Len(chunks))
              THEN Advance(idx) ELSE idx
    /\ UNCHANGED <<pages, chunks, sleeps, reports, result, again>>

\* time.sleep(2), then the next iteration
Sleep ==
    /\ pc = "sleep"
    /\ UNCHANGED <<call, returned, chatbot>>
    /\ sleeps' = sleeps + 1
    /\ events' = Append(events, Event("sleep", idx + 1))
    /\ idx' = IF HasNext(idx, Len(chunks)) THEN Advance(idx) ELSE idx
    /\ response' = NoResponse
    /\ chunk_result' = EmptyDict
    /\ pc' = IF HasNext(idx, Len(chunks)) THEN "analyze" ELSE "aggregate"
    /\ UNCHANGED <<pages, chunks, replies, outcomes, successful_reports,
                   reports, result, again>>

\* after the loop: the error, or the aggregated report
Finish ==
    /\ pc = "aggregate"
    /\ UNCHANGED <<call, returned, chatbot>>
    /\ result' = ReportOrError(successful_reports)
    /\ response' = NoResponse
    /\ chunk_result' = EmptyDict
    /\ events' = IF successful_reports = <<>> THEN events
                 ELSE Append(events, Event("aggregate", 0))
    /\ pc' = "done"
    /\ UNCHANGED <<pages, chunks, idx, replies, outcomes, successful_reports,
                   sleeps, reports, again>>

Next == SplitDocument \/ CallAnalyzeChunk \/ AnalyzeNextChunk \/ Sleep \/ Finish

Spec == Init /\ [][Next]_vars

(* _aggregate_reports called on its own *)

InitAgg ==
    /\ pc = "call"
    /\ reports \in AggregateInputs
    /\ pages = <<>>
    /\ chunks = <<>>
    /\ idx = 0
    /\ response = NoResponse
    /\ chunk_result = EmptyDict
    /\ replies = <<>>
    /\ outcomes = <<>>
    /\ successful_reports = <<>>
    /\ sleeps = 0
    /\ result = NoResult
    /\ again = NoResult
    /\ events = <<>>
    /\ call = NoCall
    /\ returned = NoCall
    /\ chatbot = NoChatbot

AggregateCall ==
    /\ pc = "call"
    /\ UNCHANGED <<call, returned, chatbot>>
    /\ result' = AggregateReports(reports)
    /\ pc' = "returned"
    /\ UNCHANGED <<pages, chunks, idx, response, chunk_result, replies,
                   outcomes, successful_reports, sleeps, reports, again,
                   events>>

\* the same call once more, on the same list object
AggregateAgain ==
    /\ pc = "returned"
    /\ UNCHANGED <<call, returned, chatbot>>
    /\ again' = AggregateReports(reports)
    /\ pc' = "returned again"
    /\ UNCHANGED <<pages, chunks, idx, response, chunk_result, replies,
                   outcomes, successful_reports, sleeps, reports, result,
                   events>>

NextAgg == AggregateCall \/ AggregateAgain

SpecAgg == InitAgg /\ [][NextAgg]_vars


(* analyze_document and direct calls of _aggregate_reports together *)

InitAll == Init \/ InitAgg

NextAll == Next \/ NextAgg

SpecAll == InitAll /\ [][NextAll]_vars

(* the chunking alone, on longer documents *)

InitSplit == InitWith(LoadedDocuments(MaxSplitPages))

NextSplit == SplitDocument

SpecSplit == InitSplit /\ [][NextSplit]_vars

(* _aggregate_reports of clause_extraction.py called on its own *)

Str_NDA == <<"N","D","A">>
Str_Lease == <<"L","e","a","s","e">>

TitledClauses ==
    {Clause(Title1, Str_ab, HIGH, 1), Clause(Title1, Str_cd, HIGH, 1),
     Clause(Title2, Str_ab, CRITICAL, 2), Clause(Title2, Str_cd, LOW, 2)}

\* one or two chunk reports; the first with or without a title and a type
TitledInputs ==
    {<<>>}
    \cup {<<TitledReport(t, ty, cs)>> \o rest :
            t \in {NoKey, Str_NDA}, ty \in {NoKey, Str_Lease},
            cs \in SeqsUpTo(TitledClauses, MaxTitled),
            rest \in {<<>>}
                     \cup {<<TitledReport(t2, NoKey, cs2)>> :
                             t2 \in {NoKey, Str_Lease},
                             cs2 \in SeqsUpTo({Clause(Title2, Str_ab, HIGH, 3)}, 1)}}

InitTitled ==
    /\ pc = "call"
    /\ reports \in TitledInputs
    /\ pages = <<>>
    /\ chunks = <<>>
    /\ idx = 0
    /\ response = NoResponse
    /\ chunk_result = EmptyDict
    /\ replies = <<>>
    /\ outcomes = <<>>
    /\ successful_reports = <<>>
    /\ sleeps = 0
    /\ result = NoResult
    /\ again = NoResult
    /\ events = <<>>
    /\ call = NoCall
    /\ returned = NoCall
    /\ chatbot = NoChatbot

AggregateByTitleCall ==
    /\ pc = "call"
    /\ UNCHANGED <<call, returned, chatbot>>
    /\ result' = AggregateReportsByTitle(reports)
    /\ pc' = "returned"
    /\ UNCHANGED <<pages, chunks, idx, response, chunk_result, replies,
                   outcomes, successful_reports, sleeps, reports, again,
                   events>>

\* the same reports given to _aggregate_reports of ce2.py
AggregateBySummaryCall ==
    /\ pc = "returned"
    /\ UNCHANGED <<call, returned, chatbot>>
    /\ again' = AggregateReports(reports)
    /\ pc' = "compared"
    /\ UNCHANGED <<pages, chunks, idx, response, chunk_result, replies,
                   outcomes, successful_reports, sleeps, reports, result,
                   events>>

NextTitled == AggregateByTitleCall \/ AggregateBySummaryCall

SpecTitled == InitTitled /\ [][NextTitled]_vars

(* calls of the functions outside the analyzer *)

\* the analyzer is not running
AnalyzerIdle ==
    /\ pages = <<>>
    /\ chunks = <<>>
    /\ idx = 0
    /\ response = NoResponse
    /\ chunk_result = EmptyDict
    /\ replies = <<>>
    /\ outcomes = <<>>
    /\ successful_reports = <<>>
    /\ sleeps = 0
    /\ reports = <<>>
    /\ result = NoResult
    /\ again = NoResult
    /\ events = <<>>

AnalyzerUnchanged ==
    UNCHANGED <<pages, chunks, idx, response, chunk_result, replies, outcomes,
                successful_reports, sleeps, reports, result, again, events>>

(* classify_document of doc_classification.py *)

InitClassify ==
    /\ pc = "call"
    /\ call \in {[fn |-> "classify_document", file |-> f, llm |-> l] :
                    f \in Files, l \in Llms}
    /\ returned = NoCall
    /\ chatbot = NoChatbot
    /\ AnalyzerIdle

ClassifyCall ==
    /\ pc = "call"
    /\ call.fn = "classify_document"
    /\ returned' = ClassifyDocument(call.file, call.llm)
    /\ pc' = "returned"
    /\ UNCHANGED <<call, chatbot>>
    /\ AnalyzerUnchanged

NextClassify == ClassifyCall

SpecClassify == InitClassify /\ [][NextClassify]_vars

----------------------------------------------------------------------------
(* Template selection of summarize_document: backend/summarize.py and
   backend/chatbot.py *)

LITIGATION == <<"L","I","T","I","G","A","T","I","O","N">>

\* category = None, the default of the parameter
NoneCategory == <<"<None>">>

\* PROMPT_TEMPLATES of each module: every key of the dict holds a
\* PromptTemplate with a text of its own
PROMPT_TEMPLATES(module) ==
    [k \in (IF module = "summarize.py"
               THEN {TRANSACTIONAL, DISPUTES, CORPORATE, REGULATORY,
                     INTELLECTUAL_PROPERTY, OTHERS}
               ELSE {TRANSACTIONAL, LITIGATION, REGULATORY,
                     INTELLECTUAL_PROPERTY, OTHERS}) |->
        [module |-> module, template |-> k]]

\* what `from doc_classification import classify_document` and the call give
Classifiers ==
    {[kind |-> "label", label |-> CATEGORIES[i]] : i \in 1..Len(CATEGORIES)}
        \cup {[kind |-> "ImportError"], [kind |-> "Exception"]}

\* the category after the `if not category:` block
ResolveCategory(module, category, classifier) ==
    IF category \notin {NoneCategory, <<>>} THEN Returns(category)
    ELSE IF classifier.kind = "label" THEN Returns(classifier.label)
    ELSE IF classifier.kind = "ImportError" THEN Returns(OTHERS)
    ELSE IF module = "chatbot.py" THEN Returns(OTHERS)
    ELSE Raises("Exception")

\* PROMPT_TEMPLATES.get(category, PROMPT_TEMPLATES["OTHERS"])
SelectPrompt(module, category) ==
    IF category \in DOMAIN PROMPT_TEMPLATES(module)
        THEN PROMPT_TEMPLATES(module)[category]
        ELSE PROMPT_TEMPLATES(module)[OTHERS]

\* the category argument: a key of either dict, None, "", "others", "CONTRACT"
GivenCategories ==
    DOMAIN PROMPT_TEMPLATES("summarize.py") \cup DOMAIN PROMPT_TEMPLATES("chatbot.py")
        \cup {NoneCategory, <<>>, <<"o","t","h","e","r","s">>,
              <<"C","O","N","T","R","A","C","T">>}

InitSummarize ==
    /\ pc = "call"
    /\ call \in {[fn |-> "summarize_document", module |-> m, ready |-> r,
                  category |-> c, classifier |-> k] :
                    m \in {"summarize.py", "chatbot.py"}, r \in BOOLEAN,
                    c \in GivenCategories, k \in Classifiers}
    /\ returned = NoCall
    /\ chatbot = NoChatbot
    /\ AnalyzerIdle

\* GEMINI_API_KEY unset (summarize.py) or self.llm unset (chatbot.py)
SummarizeNotReady ==
    /\ pc = "call"
    /\ call.fn = "summarize_document"
    /\ ~call.ready
    /\ returned' = IF call.module = "summarize.py"
                       THEN Raises("ValueError")
                       ELSE Returns("LLM not initialized. Cannot summarize.")
    /\ pc' = "returned"
    /\ UNCHANGED <<call, chatbot>>
    /\ AnalyzerUnchanged

\* from the entry of summarize_document to the chosen prompt
SelectPromptTemplate ==
    /\ pc = "call"
    /\ call.fn = "summarize_document"
    /\ call.ready
    /\ LET category == ResolveCategory(call.module, call.category, call.classifier)
       IN  IF category.raised
               THEN /\ returned' = category
                    /\ pc' = "returned"
               ELSE /\ returned' = [category |-> category.value,
                                    prompt |-> SelectPrompt(call.module, category.value)]
                    /\ pc' = "prompt"
    /\ UNCHANGED <<call, chatbot>>
    /\ AnalyzerUnchanged

NextSummarize == SummarizeNotReady \/ SelectPromptTemplate

SpecSummarize == InitSummarize /\ [][NextSummarize]_vars

----------------------------------------------------------------------------
(* The command-line wrappers: classify_wrapper.py, ingest_wrapper.py,
   chat_wrapper.py.  A run of main ends with what it printed on stdout and
   the exit status of the process. *)

MaxArgc == 5

\* a main that lets the exception through: a traceback, nothing on stdout
CliFailureRaw(object) == [stdout |-> <<>>, exit |-> 1]

\* the usage branch and the except branch of main: print the object, exit(1)
CliFailure(object) == [stdout |-> <<object>>, exit |-> 1]

\* print(json.dumps(result)) of a dict of strings, numbers and booleans,
\* then the end of main
CliPrint(object) == [stdout |-> <<object>>, exit |-> 0]

\* DocumentClassifier.classify_document: the label, OTHERS on any exception
DocumentClassifierClassify(classified) ==
    IF classified.raised THEN Returns(OTHERS) ELSE classified

\* classify_wrapper.main
ClassifyMain(argc, classified) ==
    LET Except(e) == CliFailure([success |-> FALSE, error |-> e])
    IN  IF argc # 2
            THEN CliFailure([success |-> FALSE, error |-> "File path required"])
        ELSE LET classification == DocumentClassifierClassify(classified)
             IN  IF classification.raised THEN Except(classification.value)
                 ELSE CliPrint([success |-> TRUE,
                                classification |-> classification.value])

\* DocumentIngestor.ingest_document around DocumentIngester.ingest_document:
\* a FAISS store has an index attribute without a get method
DocumentIngestorIngest(ingested) ==
    IF ingested.raised
        THEN Returns([success |-> FALSE, error |-> ingested.value])
    ELSE IF ingested.value = "None"
        THEN Returns([success |-> TRUE, chunks_created |-> 0])
    ELSE Returns([success |-> FALSE,
                  error |-> "object has no attribute 'get'"])

\* ingest_wrapper.main
IngestMain(argc, ctor, ingested) ==
    LET Except(e) == CliFailure([success |-> FALSE, error |-> e])
    IN  IF argc # 3
            THEN CliFailure([success |-> FALSE,
                             error |-> "File path and document ID required"])
        ELSE IF ctor.raised THEN Except(ctor.value)
        ELSE LET ingestion == DocumentIngestorIngest(ingested)
             IN  IF ingestion.raised THEN Except(ingestion.value)
                 ELSE CliPrint([success |-> TRUE,
                                document_id |-> "document_id",
                                chunks_created |->
                                    IF "chunks_created" \in DOMAIN ingestion.value
                                        THEN ingestion.value.chunks_created
                                        ELSE 0])

\* chat_wrapper.main; summarize_document() is called without its pdf_path
ChatMain(argc, api_key, mode, ctor, answered) ==
    LET Except(e) ==
            CliFailure([success |-> FALSE, error |-> e,
                        response |-> "I apologize, but I'm having trouble processing your request right now. Please try again later."])
    IN  IF argc # 4
            THEN CliFailure([success |-> FALSE,
                             error |-> "Message, document ID, and mode required"])
        ELSE IF ~api_key
            THEN Except("GEMINI_API_KEY environment variable is required")
        ELSE IF ctor.raised THEN Except(ctor.value)
        ELSE LET answer ==
                    IF mode = "summarize"
                        THEN Raises("summarize_document() missing 1 required positional argument: 'pdf_path'")
                        ELSE answered
             IN  IF answer.raised THEN Except(answer.value)
                 ELSE CliPrint([success |-> TRUE, response |-> answer.value,
                                sources |-> <<>>, mode |-> mode])

\* the runs of the wrappers: sys.argv, the environment, and what the
\* constructor and the method of the wrapped class end with
CliCalls ==
    LET Constructed == {Returns("ok"), Raises("model could not be loaded")}
    IN
    {[fn |-> "main", wrapper |-> "classify", argc |-> n, api_key |-> TRUE,
      mode |-> "", ctor |-> Returns("ok"), outcome |-> o] :
        n \in 1..MaxArgc,
        o \in {Returns(CATEGORIES[i]) : i \in 1..Len(CATEGORIES)}}
    \cup
    {[fn |-> "main", wrapper |-> "ingest", argc |-> n, api_key |-> TRUE,
      mode |-> "", ctor |-> c, outcome |-> o] :
        n \in 1..MaxArgc, c \in Constructed,
        o \in {Returns("FAISS"), Raises("file could not be read")}}
    \cup
    {[fn |-> "main", wrapper |-> "chat", argc |-> n, api_key |-> k,
      mode |-> md, ctor |-> c, outcome |-> Returns("answer")] :
        n \in 1..MaxArgc, k \in BOOLEAN, c \in Constructed,
        md \in {"qna", "summarize", "explain", "verbose"}}

InitCli ==
    /\ pc = "call"
    /\ call \in CliCalls
    /\ returned = NoCall
    /\ chatbot = NoChatbot
    /\ AnalyzerIdle

ClassifyWrapperMain ==
    /\ pc = "call"
    /\ call.fn = "main"
    /\ call.wrapper = "classify"
    /\ returned' = ClassifyMain(call.argc, call.outcome)
    /\ pc' = "exited"
    /\ UNCHANGED <<call, chatbot>>
    /\ AnalyzerUnchanged

IngestWrapperMain ==
    /\ pc = "call"
    /\ call.fn = "main"
    /\ call.wrapper = "ingest"
    /\ returned' = IngestMain(call.argc, call.ctor, call.outcome)
    /\ pc' = "exited"
    /\ UNCHANGED <<call, chatbot>>
    /\ AnalyzerUnchanged

ChatWrapperMain ==
    /\ pc = "call"
    /\ call.fn = "main"
    /\ call.wrapper = "chat"
    /\ returned' = ChatMain(call.argc, call.api_key, call.mode, call.ctor,
                            call.outcome)
    /\ pc' = "exited"
    /\ UNCHANGED <<call, chatbot>>
    /\ AnalyzerUnchanged

NextCli == ClassifyWrapperMain \/ IngestWrapperMain \/ ChatWrapperMain

SpecCli == InitCli /\ [][NextCli]_vars

----------------------------------------------------------------------------
(* classify_document of the CrewAI-based AI Code/doc_classification.py *)

\* a result of crew.kickoff() that is not a str
CrewOutputObject == <<"<CrewOutput>">>

\* classify_document(pdf_path): get_gemini_llm stores os.getenv("GEMINI_API_KEY")
\* in os.environ (TypeError for None), then the crew's result is cleaned
CrewClassifyDocument(api_key, kickoff) ==
    IF ~api_key THEN Raises("TypeError")
    ELSE IF ~kickoff.is_str THEN Returns(CrewOutputObject)
    ELSE LET word == FirstWord(Upper(Strip(kickoff.text)))
         IN  IF word.raised THEN word
             ELSE IF \E k \in 1..Len(CATEGORIES) : CATEGORIES[k] = word.value
             THEN Returns(word.value)
             ELSE Returns(OTHERS)

\* the crew answers with a str or with an output object, whose text is one of
\* Answers, a further label, or a label followed by more words
InitCrew ==
    /\ pc = "call"
    /\ call \in {[fn |-> "crew_classify_document", api_key |-> k,
                  kickoff |-> [is_str |-> s, text |-> a]] :
                    k \in BOOLEAN, s \in BOOLEAN,
                    a \in Answers \cup {DISPUTES, CORPORATE, REGULATORY,
                                        <<"O","T","H","E","R","S"," ","!">>}}
    /\ returned = NoCall
    /\ chatbot = NoChatbot
    /\ AnalyzerIdle

CrewClassifyCall ==
    /\ pc = "call"
    /\ call.fn = "crew_classify_document"
    /\ returned' = CrewClassifyDocument(call.api_key, call.kickoff)
    /\ pc' = "returned"
    /\ UNCHANGED <<call, chatbot>>
    /\ AnalyzerUnchanged

NextCrew == CrewClassifyCall

SpecCrew == InitCrew /\ [][NextCrew]_vars

----------------------------------------------------------------------------
(* LegalDocumentChatbot of Chatbot2.py: answer_question *)

MaxTurns == 3

HumanMessage(content) == [type |-> "human", content |-> content]
AIMessage(content) == [type |-> "ai", content |-> content]

\* what a method leaves behind: the object and the value returned
Outcome(self, value) == [self |-> self, value |-> value]

\* mutant: the question enters chat_history before the chain is invoked
AnswerQuestionEagerHistory(self, question, chain) ==
    IF ~self.rag_chain
        THEN Outcome(self, <<"The Question-Answering system is not initialized. Please upload a document first.">>)
    ELSE IF Strip(question) = <<>>
        THEN Outcome(self, <<"Please provide a question to answer.">>)
    ELSE IF chain.raised
        THEN Outcome([self EXCEPT !.chat_history = Append(@, HumanMessage(question))],
                     <<"Error answering question: ", chain.value>>)
    ELSE Outcome([self EXCEPT !.chat_history =
                     @ \o <<HumanMessage(question), AIMessage(chain.value)>>],
                 <<chain.value>>)

\* answer_question(question); chain is what self.rag_chain.invoke ends with:
\* an exception, or the dict of create_retrieval_chain with its 'answer'
AnswerQuestion(self, question, chain) ==
    IF ~self.rag_chain
        THEN Outcome(self, <<"The Question-Answering system is not initialized. Please upload a document first.">>)
    ELSE IF Strip(question) = <<>>
        THEN Outcome(self, <<"Please provide a question to answer.">>)
    ELSE IF chain.raised
        THEN Outcome(self, <<"Error answering question: ", chain.value>>)
    ELSE Outcome([self EXCEPT !.chat_history =
                     @ \o <<HumanMessage(question), AIMessage(chain.value)>>],
                 <<chain.value>>)

\* __init__: empty chat_history and page_summaries; rag_chain is set when a
\* vector store could be loaded
InitChat ==
    /\ pc = "idle"
    /\ chatbot \in {[rag_chain |-> b, llm |-> TRUE, chat_history |-> <<>>,
                     page_summaries |-> <<>>] : b \in BOOLEAN}
    /\ call = NoCall
    /\ returned = NoCall
    /\ AnalyzerIdle

\* one call of answer_question: "", " ", "q" or "why"; the chain answers or
\* raises
AnswerQuestionCall ==
    /\ pc \in {"idle", "answered"}
    /\ Len(chatbot.chat_history) < 2 * MaxTurns
    /\ \E question \in {<<>>, <<" ">>, <<"q">>, <<"w","h","y">>},
          chain \in {Returns("yes"), Returns("no"), Raises("quota exceeded")} :
          /\ call' = [fn |-> "answer_question", question |-> question,
                      chain |-> chain]
          /\ chatbot' = AnswerQuestion(chatbot, question, chain).self
          /\ returned' = AnswerQuestion(chatbot, question, chain).value
    /\ pc' = "answered"
    /\ AnalyzerUnchanged

NextChat == AnswerQuestionCall

SpecChat == InitChat /\ [][NextChat]_vars

----------------------------------------------------------------------------
(* LegalDocumentChatbot of Chatbot2.py: summarize_document and
   get_concise_page_summary.  A document is its name and, page by page, what
   the page is to the loop: "blank" (page_text.strip() is empty), "text", or
   "raises" (the page summary chain raises on it).  The summary the LLM gives
   of a page is written as the document and the 1-based number of that page. *)

MaxDocPages == 2

\* the loop over range(page_count): self.page_summaries when the loop ends,
\* and whether it ended by an exception
RECURSIVE SummarizePages(_, _, _)
SummarizePages(document, i, page_summaries) ==
    IF i > Len(document.pages) THEN Returns(page_summaries)
    ELSE IF document.pages[i] = "blank"
        THEN SummarizePages(document, i + 1, page_summaries)
    ELSE IF document.pages[i] = "raises" THEN Raises(page_summaries)
    ELSE SummarizePages(document, i + 1,
             Append(page_summaries, [document |-> document.name, page |-> i]))

\* summarize_document(pdf_path): self.page_summaries is emptied and filled
\* again; an exception of a page chain leaves what was appended so far
SummarizeDocumentPages(self, document) ==
    IF ~self.llm THEN Outcome(self, Raises("LLM not initialized. Cannot summarize."))
    ELSE LET looped == SummarizePages(document, 1, <<>>)
         IN  Outcome([self EXCEPT !.page_summaries = looped.value],
                     IF looped.raised THEN Raises("page summary chain")
                     ELSE Returns("page_summaries and master_summary"))

\* get_concise_page_summary(page_number); concise is what the concise chain
\* ends with when it is invoked
GetConcisePageSummary(self, page_number, concise) ==
    LET index == page_number - 1
        Answer(message, of, llm_calls) ==
            [message |-> message, of |-> of, llm_calls |-> llm_calls]
    IN  IF self.page_summaries = <<>>
            THEN Answer("Error: Please summarize a document first before requesting a page summary.", <<>>, 0)
        ELSE IF ~(0 <= index /\ index < Len(self.page_summaries))
            THEN Answer("Error: Invalid page number. Please provide a number between 1 and {}.", <<>>, 0)
        ELSE IF concise.raised
            THEN Answer("An error occurred while summarizing page {}.", <<>>, 1)
        ELSE Answer("", <<self.page_summaries[index + 1]>>, 1)

\* the analyzer's variables other than pages, which here holds the document
\* last given to summarize_document
RestOfAnalyzerUnchanged ==
    UNCHANGED <<chunks, idx, response, chunk_result, replies, outcomes,
                successful_reports, sleeps, reports, result, again, events>>

InitPages ==
    /\ pc = "idle"
    /\ chatbot \in {[rag_chain |-> FALSE, llm |-> l, chat_history |-> <<>>,
                     page_summaries |-> <<>>] : l \in BOOLEAN}
    /\ call = NoCall
    /\ returned = NoCall
    /\ AnalyzerIdle

\* documents "A" and "B" of one to MaxDocPages pages
SummarizeDocumentCall ==
    /\ pc \in {"idle", "summarized", "condensed"}
    /\ \E name \in {"A", "B"},
          texts \in UNION {[1..n -> {"blank", "text", "raises"}] : n \in 1..MaxDocPages} :
          LET document == [name |-> name, pages |-> texts]
          IN  /\ call' = [fn |-> "summarize_document", document |-> document]
              /\ chatbot' = SummarizeDocumentPages(chatbot, document).self
              /\ returned' = SummarizeDocumentPages(chatbot, document).value
              /\ pages' = IF chatbot.llm THEN document ELSE pages
    /\ pc' = "summarized"
    /\ RestOfAnalyzerUnchanged

GetConcisePageSummaryCall ==
    /\ pc \in {"idle", "summarized", "condensed"}
    /\ \E page_number \in 0..(MaxDocPages + 1),
          concise \in {Returns("concise"), Raises("quota exceeded")} :
          /\ call' = [fn |-> "get_concise_page_summary",
                      page_number |-> page_number, concise |-> concise]
          /\ returned' = GetConcisePageSummary(chatbot, page_number, concise)
    /\ pc' = "condensed"
    /\ UNCHANGED <<chatbot, pages>>
    /\ RestOfAnalyzerUnchanged

NextPages == SummarizeDocumentCall \/ GetConcisePageSummaryCall

SpecPages == InitPages /\ [][NextPages]_vars

----------------------------------------------------------------------------
(* backend/summarize.py: summarize_document from get_page_count on, and
   summarize_long_document.  call holds the arguments and the locals of the
   run: page_count, the loop index i, page_summaries (the summary of page i
   is written i), the page the loop has just handled, and the number of
   master-summary calls made. *)

MaxPageCount == 11

\* if page_count < 10: one pass; else: map-reduce
LongThreshold == 10

\* what summarize_document returns: the summary of the given page summaries
\* (or of the full text), or its "Error: Could not summarize ..." string
Summarized(error, over) == [error |-> error, over |-> over]

\* mutant: no try/except in the loop, the exception of a page ends the run
SummarizeLongPageUnguarded(frame, page) ==
    [frame EXCEPT
        !.page = page,
        !.page_summaries = IF page = "text" THEN Append(@, frame.i) ELSE @,
        !.i = IF page \in {"unreadable", "raises"} THEN frame.page_count ELSE @ + 1]

\* one iteration of `for i in range(page_count)`: the page is "blank",
\* "text", "unreadable" (get_text_from_page raises) or "raises" (the page
\* summary chain raises); except Exception: continue
SummarizeLongPage(frame, page) ==
    [frame EXCEPT
        !.page = page,
        !.page_summaries = IF page = "text" THEN Append(@, frame.i) ELSE @,
        !.i = @ + 1]

InitLong ==
    /\ pc = "page_count"
    /\ call \in {[fn |-> "summarize_document", page_count |-> n, i |-> 0,
                  page_summaries |-> <<>>, page |-> "", master_calls |-> 0] :
                    n \in -1..MaxPageCount}
    /\ returned = NoCall
    /\ chatbot = NoChatbot
    /\ AnalyzerIdle

\* page_count = doc_processor.get_page_count(pdf_path); -1 stands for a
\* file fitz cannot open
GetPageCount ==
    /\ pc = "page_count"
    /\ IF call.page_count < 0
           THEN /\ returned' = Summarized("Error: Could not summarize the document. {}", <<>>)
                /\ pc' = "returned"
       ELSE IF call.page_count < LongThreshold
           THEN /\ pc' = "short"
                /\ UNCHANGED returned
       ELSE /\ pc' = "page"
            /\ UNCHANGED returned
    /\ UNCHANGED <<call, chatbot>>
    /\ AnalyzerUnchanged

\* get_full_text and summarize_short_document
SummarizeShortDocument ==
    /\ pc = "short"
    /\ \E fails \in BOOLEAN :
          returned' = IF fails
                          THEN Summarized("Error: Could not summarize the document. {}", <<>>)
                          ELSE Summarized("", <<"full text">>)
    /\ pc' = "returned"
    /\ UNCHANGED <<call, chatbot>>
    /\ AnalyzerUnchanged

SummarizePage ==
    /\ pc = "page"
    /\ call.i < call.page_count
    /\ \E page \in {"blank", "text", "unreadable", "raises"} :
          call' = SummarizeLongPage(call, page)
    /\ pc' = IF call'.i < call.page_count THEN "page" ELSE "master"
    /\ UNCHANGED <<returned, chatbot>>
    /\ AnalyzerUnchanged

\* master_summary_chain.invoke over the joined page summaries; when it
\* raises, summarize_document returns its error string
MasterSummary ==
    /\ pc = "master"
    /\ call' = [call EXCEPT !.master_calls = @ + 1]
    /\ \E fails \in BOOLEAN :
          returned' = IF fails
                          THEN Summarized("Error: Could not summarize the document. {}", <<>>)
                          ELSE Summarized("", call.page_summaries)
    /\ pc' = "returned"
    /\ UNCHANGED chatbot
    /\ AnalyzerUnchanged

NextLong == GetPageCount \/ SummarizeShortDocument \/ SummarizePage \/ MasterSummary

SpecLong == InitLong /\ [][NextLong]_vars

(* analyze_document over every list a loader may hand it: DocumentProcessor
   always returns at least one Document, another doc_processor may return
   the empty list *)

InitAnyPages == InitWith(LoadedDocuments(MaxPages) \cup {<<>>})

SpecAnyPages == InitAnyPages /\ [][Next]_vars

----------------------------------------------------------------------------
(* Properties of _aggregate_reports (SpecAgg) *)

\* a call has returned a report (not an error)
ReportReturned == pc \in {"returned", "done"} /\ "clauses" \in result.keys

\* the input positions of a direct call, in arrival order
Arrivals == ClauseRefs(reports)

ArrivedClause(k) == ClauseAt(reports, Arrivals[k])

InReport(ref) == \E i \in 1..Len(result.refs) : result.refs[i] = ref

\* the risk level of a clause read without regard to case
RiskIgnoringCase(clause) == Upper(Get(clause.risk_level, <<>>))

(* C1, as stated: every clause of a returned report has risk_level equal to
   HIGH or CRITICAL. *)
C1_RiskExactlyHighOrCritical ==
    ReportReturned =>
        \A i \in 1..Len(result.clauses) :
            result.clauses[i].risk_level \in {HIGH, CRITICAL}

(* C1, amended: every clause of a returned report has a risk_level that is
   HIGH or CRITICAL once upper-cased; a clause whose upper-cased risk_level is
   anything else, or that has none, never appears. *)
C1_RiskHighOrCriticalIgnoringCase ==
    ReportReturned =>
        /\ \A i \in 1..Len(result.clauses) :
              RiskIgnoringCase(result.clauses[i]) \in {HIGH, CRITICAL}
        /\ \A k \in 1..Len(Arrivals) :
              RiskIgnoringCase(ArrivedClause(k)) \notin {HIGH, CRITICAL}
                  => ~InReport(Arrivals[k])

\* a report that kept a clause and dropped a LOW one and one without a level
C1_Witness ==
    /\ pc = "returned"
    /\ ReportReturned
    /\ Len(result.clauses) >= 1
    /\ \E k \in 1..Len(Arrivals) : ArrivedClause(k).risk_level = LOW
    /\ \E k \in 1..Len(Arrivals) : ArrivedClause(k).risk_level = NoKey

\* the key of C2 as stated: summary[:100].lower().strip(), page_number
StatedKey(clause) ==
    <<Strip(Lower(Prefix(Get(clause.clause_summary, <<>>), SigLen))),
      GetPage(clause)>>

\* the key with the steps in the order lower, strip, then the first 100
StrippedKey(clause) ==
    <<Prefix(Strip(Lower(Get(clause.clause_summary, <<>>))), SigLen),
      GetPage(clause)>>

(* C2, as stated: of two clauses with the same key
   (clause_summary[:100].lower().strip(), page_number) only the one that
   arrived first can appear in the report. *)
C2_FirstOfStatedKeyOnly ==
    ReportReturned /\ pc = "returned" =>
        /\ \A k1, k2 \in 1..Len(Arrivals) :
              k1 < k2 /\ StatedKey(ArrivedClause(k1)) = StatedKey(ArrivedClause(k2))
                  => ~InReport(Arrivals[k2])
        /\ \A i, j \in 1..Len(result.clauses) :
              i # j => StatedKey(result.clauses[i]) # StatedKey(result.clauses[j])

(* C2, amended: with the key (clause_summary.lower().strip()[:100],
   page_number), of two clauses with the same key at most one appears in the
   report, and a later one appears only if the earlier one is not HIGH or
   CRITICAL (upper-cased); no two clauses of a report share that key. *)
C2_FirstHighRiskOfKeyOnly ==
    ReportReturned /\ pc = "returned" =>
        /\ \A k1, k2 \in 1..Len(Arrivals) :
              k1 < k2 /\ StrippedKey(ArrivedClause(k1)) = StrippedKey(ArrivedClause(k2))
                  => /\ ~(InReport(Arrivals[k1]) /\ InReport(Arrivals[k2]))
                     /\ InReport(Arrivals[k2])
                            => RiskIgnoringCase(ArrivedClause(k1)) \notin {HIGH, CRITICAL}
        /\ \A i, j \in 1..Len(result.clauses) :
              i # j => StrippedKey(result.clauses[i]) # StrippedKey(result.clauses[j])

\* two HIGH clauses whose summaries differ only in case and outer blanks:
\* the first is in the report, the second is not
C2_Witness ==
    /\ pc = "returned"
    /\ ReportReturned
    /\ \E k1, k2 \in 1..Len(Arrivals) :
          /\ k1 < k2
          /\ ArrivedClause(k1).clause_summary # ArrivedClause(k2).clause_summary
          /\ StrippedKey(ArrivedClause(k1)) = StrippedKey(ArrivedClause(k2))
          /\ ArrivedClause(k1).risk_level = HIGH
          /\ ArrivedClause(k2).risk_level = HIGH
          /\ InReport(Arrivals[k1])
          /\ ~InReport(Arrivals[k2])

\* the rank the claims sort by: priority(CRITICAL) = 0, priority(HIGH) = 1
Rank(clause) ==
    <<IF RiskIgnoringCase(clause) = CRITICAL THEN 0
      ELSE IF RiskIgnoringCase(clause) = HIGH THEN 1 ELSE 2,
      GetPage(clause)>>

RankLeq(a, b) ==
    Rank(a)[1] < Rank(b)[1] \/ (Rank(a)[1] = Rank(b)[1] /\ Rank(a)[2] <= Rank(b)[2])

(* C3: the clauses of a returned report are in non-decreasing order of
   (priority(risk_level), page_number): CRITICAL before HIGH, pages ascending
   within a level; [HIGH@5, CRITICAL@1, HIGH@1, CRITICAL@9] comes out as
   [CRITICAL@1, CRITICAL@9, HIGH@1, HIGH@5]. *)
C3_SortedByRiskThenPage ==
    ReportReturned =>
        /\ \A i, j \in 1..Len(result.clauses) :
              i < j => RankLeq(result.clauses[i], result.clauses[j])
        /\ (pc = "returned" /\ reports = RankingScenario)
              => result.refs = <<<<1, 2>>, <<1, 4>>, <<1, 3>>, <<1, 1>>>>

\* the ranking scenario, aggregated
C3_Witness ==
    /\ pc = "returned"
    /\ reports = RankingScenario
    /\ Len(result.clauses) = 4
    /\ result.clauses[1].risk_level = CRITICAL /\ result.clauses[1].page_number = 1
    /\ result.clauses[4].risk_level = HIGH /\ result.clauses[4].page_number = 5

(* C4: a returned report never holds more than 6 clauses. *)
C4_AtMostSixClauses ==
    ReportReturned => Len(result.clauses) <= 6

\* more than 6 HIGH/CRITICAL clauses on pairwise different pages went in,
\* 6 came out
C4_Witness ==
    /\ pc = "returned"
    /\ ReportReturned
    /\ Len(result.clauses) = 6
    /\ \E ks \in SUBSET (1..Len(Arrivals)) :
          /\ Cardinality(ks) > 6
          /\ \A k \in ks : ArrivedClause(k).risk_level \in {HIGH, CRITICAL}
          /\ \A k1, k2 \in ks :
                k1 # k2 => ArrivedClause(k1).page_number # ArrivedClause(k2).page_number

----------------------------------------------------------------------------
(* Properties of analyze_document and _analyze_chunk (Spec, SpecAll) *)

\* a chunk analysis that gave no usable result: {} or no 'clauses'
ChunkFailed(chunk) == chunk.keys = {} \/ "clauses" \notin chunk.keys

ChunkUsable(chunk) == ~ChunkFailed(chunk)

IsErrorResult ==
    /\ "error" \in result.keys
    /\ "summary" \notin result.keys
    /\ "clauses" \notin result.keys

\* _analyze_chunk has just returned for the response held in `response`
JustAnalyzed == pc \in {"sleep", "aggregate"} /\ response.kind # "none"

(* C5: when every chunk analysis of a document fails, analyze_document
   returns an error and no report (no 'summary', no 'clauses'); and
   _aggregate_reports called with an empty list returns an error. *)
C5_AllFailedIsError ==
    /\ (pc = "done" /\ \A i \in 1..Len(outcomes) : ChunkFailed(outcomes[i]))
          => IsErrorResult
    /\ (pc = "returned" /\ reports = <<>>) => IsErrorResult

\* two chunks, both failed in different ways, and the error returned
C5_Witness ==
    /\ pc = "done"
    /\ Len(outcomes) = 2
    /\ replies = <<"exception", "text">>
    /\ ChunkFailed(outcomes[1]) /\ ChunkFailed(outcomes[2])
    /\ IsErrorResult

(* C6: if at least one chunk analysis succeeds, analyze_document returns a
   report, not an error, whichever other chunks failed, and the report is
   the aggregation of the successful chunk results in their order. *)
C6_FailuresIsolated ==
    (pc = "done" /\ \E i \in 1..Len(outcomes) : ChunkUsable(outcomes[i]))
        => /\ "clauses" \in result.keys
           /\ "summary" \in result.keys
           /\ "error" \notin result.keys
           /\ result = AggregateReports(SelectSeq(outcomes, ChunkUsable))

\* a failed chunk and then a successful one: its clauses are reported
C6_Witness ==
    /\ pc = "done"
    /\ Len(outcomes) = 2
    /\ ChunkFailed(outcomes[1])
    /\ ChunkUsable(outcomes[2])
    /\ Len(outcomes[2].clauses) = 2
    /\ Len(result.clauses) = 2

\* an entry of a 'clauses' array that passes validation
WellFormed(clause) ==
    /\ clause.is_object
    /\ clause.clause_title \notin {NoKey, NotAStr}
    /\ clause.clause_summary \notin {NoKey, NotAStr}
    /\ clause.risk_level \in {HIGH, CRITICAL}
    /\ clause.risk_explanation \notin {NoKey, NotAStr}
    /\ clause.page_number # NoPage

(* C7, as stated: a malformed entry of a 'clauses' array (a missing field, a
   risk_level outside the enum, an entry that is not an object) is dropped on
   its own: the chunk is a successful outcome holding every valid clause. *)
C7_MalformedEntryDroppedAlone ==
    (/\ JustAnalyzed
     /\ response.kind = "json" /\ response.is_object
     /\ "clauses" \in response.keys /\ response.clauses_is_list)
        => /\ ChunkUsable(chunk_result)
           /\ chunk_result.clauses = SelectSeq(response.clauses, WellFormed)

\* the response is a JSON object without a 'clauses' list
ObjectWithoutClauses(resp) ==
    /\ resp.kind = "json" /\ resp.is_object
    /\ ~("clauses" \in resp.keys /\ resp.clauses_is_list)

(* C8, as stated: a response that is not JSON, or is JSON without a 'clauses'
   array, gives a successful chunk outcome with no clauses; a document whose
   chunks all answer with non-JSON text yields a report with zero clauses. *)
C8_NonJsonDegradesToEmpty ==
    /\ (JustAnalyzed /\ (response.kind = "text" \/ ObjectWithoutClauses(response)))
          => (ChunkUsable(chunk_result) /\ chunk_result.clauses = <<>>)
    /\ (pc = "done" /\ replies # <<>> /\ \A i \in 1..Len(replies) : replies[i] = "text")
          => ("clauses" \in result.keys /\ result.clauses = <<>>)

(* C8, amended: a response that is a JSON object without a 'clauses' list
   gives a successful chunk outcome with no clauses; a response that is not
   valid JSON, or is JSON but not an object, gives a failed chunk; a document
   whose chunks all answer with non-JSON text yields the all-chunks-failed
   error. *)
C8_OnlyJsonObjectDegrades ==
    /\ (JustAnalyzed /\ ObjectWithoutClauses(response))
          => (ChunkUsable(chunk_result) /\ chunk_result.clauses = <<>>)
    /\ (JustAnalyzed /\ (response.kind = "text"
                         \/ (response.kind = "json" /\ ~response.is_object)))
          => ChunkFailed(chunk_result)
    /\ (pc = "done" /\ replies # <<>> /\ \A i \in 1..Len(replies) : replies[i] = "text")
          => (IsErrorResult
              /\ result.error = "All chunk analyses failed. Check your API quota and document format.")

\* a JSON object without 'clauses', then non-JSON text: a report of no clauses
C8_Witness ==
    /\ pc = "done"
    /\ replies = <<"json", "text">>
    /\ outcomes[1].keys = {"document_title", "clauses"}
    /\ outcomes[1].clauses = <<>>
    /\ ChunkFailed(outcomes[2])
    /\ "clauses" \in result.keys
    /\ result.clauses = <<>>

----------------------------------------------------------------------------
(* Properties of the chunking (SpecSplit) *)

\* the pages a chunk holds, by their text
ChunkContents(chunk) == {chunk[j].page_content : j \in 1..Len(chunk)}

(* C9: a document of n >= 2 pages is split into exactly n-1 chunks, the k-th
   holding pages k and k+1 in that order; so every page lies in a chunk and
   adjacent chunks share exactly one page. *)
C9_TwoPageWindows ==
    (pc # "load" /\ Len(pages) >= 2) =>
        /\ Len(chunks) = Len(pages) - 1
        /\ \A k \in 1..Len(chunks) :
              /\ Len(chunks[k]) = 2
              /\ chunks[k][1].page_content = pages[k].page_content
              /\ chunks[k][2].page_content = pages[k + 1].page_content
        /\ \A p \in 1..Len(pages) :
              \E k \in 1..Len(chunks) : pages[p].page_content \in ChunkContents(chunks[k])
        /\ \A k \in 1..(Len(chunks) - 1) :
              Cardinality(ChunkContents(chunks[k]) \cap ChunkContents(chunks[k + 1])) = 1

\* four pages in three chunks
C9_Witness ==
    /\ pc = "analyze"
    /\ Len(pages) = 4
    /\ Len(chunks) = 3
    /\ chunks[3][2].page_content = pages[4].page_content

(* C10: a chunk of fewer than 2 pages is emitted only as the first chunk of
   a 1-page document, which yields exactly the chunk [P0]; for n >= 2 no
   single-page chunk is emitted and no chunk starts at the last page. *)
C10_NoTrailingSinglePage ==
    pc # "load" =>
        /\ Len(pages) = 1 =>
              /\ Len(chunks) = 1
              /\ Len(chunks[1]) = 1
              /\ chunks[1][1].page_content = pages[1].page_content
        /\ \A k \in 1..Len(chunks) :
              Len(chunks[k]) < 2 => (k = 1 /\ Len(pages) = 1)
        /\ Len(pages) >= 2 =>
              \A k \in 1..Len(chunks) :
                  chunks[k][1].page_content # pages[Len(pages)].page_content

\* a one-page PDF: one chunk holding that page
C10_Witness ==
    /\ pc = "analyze"
    /\ Len(pages) = 1
    /\ pages[1].page # NoPage
    /\ Len(chunks) = 1
    /\ Len(chunks[1]) = 1
    /\ chunks[1][1].label = pages[1].page

(* C11, as stated: when the page sequence is empty the chunking yields an
   empty chunk sequence and no error result is produced on account of the
   empty input. *)
C11_EmptyPagesNoError ==
    (pc # "load" /\ pages = <<>>) =>
        /\ chunks = <<>>
        /\ pc = "done" => "error" \notin result.keys

(* C11, amended: when the page sequence is empty the chunk loop yields an
   empty chunk sequence; analyze_document then analyses nothing, makes no
   delay, and returns the all-chunks-failed error result. *)
C11_EmptyPagesAllFailedError ==
    (pc # "load" /\ pages = <<>>) =>
        /\ chunks = <<>>
        /\ outcomes = <<>>
        /\ sleeps = 0
        /\ pc = "done" =>
              (IsErrorResult
               /\ result.error = "All chunk analyses failed. Check your API quota and document format.")

\* an empty page list went through analyze_document
C11_Witness ==
    /\ pc = "done"
    /\ pages = <<>>
    /\ chunks = <<>>
    /\ IsErrorResult

----------------------------------------------------------------------------
(* Properties of repeated aggregation (SpecAgg) *)

(* C12: _aggregate_reports run twice on the same chunk reports in the same
   order yields the same clauses in the same order and the same summary. *)
C12_SecondCallSameReport ==
    pc = "returned again" =>
        /\ again.keys = result.keys
        /\ again.clauses = result.clauses
        /\ again.summary = result.summary

\* two calls on reports with a duplicate, a rejected clause and a reordering
C12_Witness ==
    /\ pc = "returned again"
    /\ Len(Arrivals) = 3
    /\ Len(again.refs) = 2
    /\ again.refs[1][2] > again.refs[2][2]
    /\ "summary" \in again.keys

----------------------------------------------------------------------------
(* Properties of the summary (SpecTitled) *)

\* the retained clauses of a report whose risk level reads as `level`
CountOf(clauses, level) ==
    Cardinality({i \in 1..Len(clauses) : RiskIgnoringCase(clauses[i]) = level})

SameCounts(r1, r2) ==
    /\ CountOf(r1.clauses, CRITICAL) = CountOf(r2.clauses, CRITICAL)
    /\ CountOf(r1.clauses, HIGH) = CountOf(r2.clauses, HIGH)

(* C13, as stated: the summary is a function of the numbers of CRITICAL and
   HIGH clauses among the retained clauses: any two aggregations whose
   retained clauses have the same two counts produce the same summary. *)
C13_SummaryFromCountsOnly ==
    (pc = "returned" /\ "summary" \in result.keys) =>
        \A other \in TitledInputs :
            LET report == AggregateReportsByTitle(other)
            IN  ("summary" \in report.keys /\ SameCounts(report, result))
                    => report.summary = result.summary

----------------------------------------------------------------------------
(* Properties of classify_document (SpecClassify) *)

\* the six labels
Labels ==
    {TRANSACTIONAL, DISPUTES, CORPORATE, REGULATORY, INTELLECTUAL_PROPERTY, OTHERS}

\* the file gives classify_document no text to classify
NothingToClassify(file) ==
    \/ ~file.exists
    \/ ~file.supported
    \/ ~file.loads
    \/ \A k \in 1..Len(file.page_contents) :
          \A i \in 1..Len(file.page_contents[k]) :
              file.page_contents[k][i] \in Whitespace

(* C14: classify_document never raises and returns exactly one of the six
   labels; it returns OTHERS when the file is missing, its extension is
   unsupported, it has no text or loading fails; an LLM answer that is empty
   or not one of the labels still gives a label of the set. *)
C14_AlwaysOneOfSixLabels ==
    (pc = "returned" /\ call.fn = "classify_document") =>
        /\ ~returned.raised
        /\ returned.value \in Labels
        /\ NothingToClassify(call.file) => returned.value = OTHERS

\* a blank LLM answer on a lease: the keyword fallback labels it
C14_Witness ==
    /\ pc = "returned"
    /\ call.fn = "classify_document"
    /\ call.llm = Llm("answer", Answer_blank)
    /\ call.file.page_contents = <<Text_lease, Text_court>>
    /\ returned = Returns(TRANSACTIONAL)

----------------------------------------------------------------------------
(* Properties of the order of calls in analyze_document (Spec) *)

\* the positions of the history holding an event of one kind
Positions(op) == {i \in 1..Len(events) : events[i].op = op}

\* how many events of one kind stand before position i
Before(op, i) == Cardinality({j \in Positions(op) : j < i})

(* C15: _analyze_chunk is called on the chunks one at a time in ascending
   chunk index, each chunk exactly once; the analysis of a chunk never starts
   before the previous one has returned; a failed chunk is not submitted
   again. *)
C15_SequentialEachOnce ==
    /\ \A i, j \in Positions("call") : i < j => events[i].chunk < events[j].chunk
    /\ \A i \in Positions("call") :
          /\ Before("call", i) = Before("return", i)
          /\ events[i].chunk = Before("call", i) + 1
    /\ \A i \in Positions("return") :
          /\ i > 1
          /\ events[i - 1] = [op |-> "call", chunk |-> events[i].chunk]
    /\ pc = "done" =>
          \A k \in 1..Len(chunks) :
              Cardinality({i \in Positions("call") : events[i].chunk = k}) = 1

\* a failed first chunk, then the second chunk: two calls in all
C15_Witness ==
    /\ pc = "done"
    /\ Len(chunks) = 2
    /\ ChunkFailed(outcomes[1])
    /\ ChunkUsable(outcomes[2])
    /\ Cardinality(Positions("call")) = 2

(* C16: a delay is made between every two consecutive chunk analyses and
   nowhere else: with c chunks there are max(c-1, 0) delays, each after a
   chunk's analysis has returned and before the next begins, whether or not
   the chunk succeeded, and none after the last chunk. *)
C16_DelayBetweenChunksOnly ==
    /\ \A i \in Positions("sleep") :
          /\ i > 1
          /\ events[i - 1].op = "return"
          /\ i < Len(events) => events[i + 1].op = "call"
    /\ \A i \in Positions("call") :
          i > 1 => events[i - 1].op = "sleep"
    /\ sleeps = Cardinality(Positions("sleep"))
    /\ pc = "done" =>
          /\ Cardinality(Positions("sleep"))
                = (IF Len(chunks) >= 1 THEN Len(chunks) - 1 ELSE 0)
          /\ \A i \in Positions("sleep") : \E j \in Positions("call") : j > i

\* two chunks, both failed: one delay, made after the first failure
C16_Witness ==
    /\ pc = "done"
    /\ Len(chunks) = 2
    /\ ChunkFailed(outcomes[1])
    /\ ChunkFailed(outcomes[2])
    /\ sleeps = 1
    /\ events[3].op = "sleep"
    /\ events[Len(events)].op = "return"

(* C17: _aggregate_reports is invoked only after the outcome of every chunk
   has been collected, and at most once in a run of analyze_document. *)
C17_AggregateAfterAllChunks ==
    /\ Cardinality(Positions("aggregate")) <= 1
    /\ \A i \in Positions("aggregate") :
          /\ Before("call", i) = Len(chunks)
          /\ Before("return", i) = Len(chunks)
          /\ i = Len(events)
    /\ (pc = "done" /\ "clauses" \in result.keys) =>
          Cardinality(Positions("aggregate")) = 1

\* a usable first chunk and a failed second one: aggregation closes the run
C17_Witness ==
    /\ pc = "done"
    /\ Len(chunks) = 2
    /\ ChunkUsable(outcomes[1])
    /\ ChunkFailed(outcomes[2])
    /\ events[Len(events)].op = "aggregate"
    /\ Before("return", Len(events)) = 2

----------------------------------------------------------------------------
(* Properties of the template selection (SpecSummarize) *)

\* the template a module keeps under a key
TemplateOf(module, key) == [module |-> module, template |-> key]

(* C18: summarize_document selects the prompt template by classification
   label: each of the six labels selects the template of its own category,
   and any label outside the six selects the OTHERS template. *)
C18_TemplateByLabel ==
    pc = "prompt" =>
        /\ returned.category \in Labels =>
              returned.prompt = TemplateOf(call.module, returned.category)
        /\ returned.category \notin Labels =>
              returned.prompt = TemplateOf(call.module, OTHERS)

----------------------------------------------------------------------------
(* Properties of the command-line wrappers (SpecCli) *)

\* the number of entries of sys.argv a wrapper asks for
WrongArgumentCount ==
    \/ call.wrapper = "classify" /\ call.argc # 2
    \/ call.wrapper = "ingest" /\ call.argc # 3
    \/ call.wrapper = "chat" /\ call.argc # 4

\* an exception reached the try block of main
RaisedWhileProcessing ==
    /\ ~WrongArgumentCount
    /\ \/ call.ctor.raised
       \/ call.wrapper = "chat" /\ (~call.api_key \/ call.mode = "summarize")

(* C19: a wrapper (classify, ingest, chat) that is started with a wrong
   number of arguments, or in which an exception is raised while processing,
   prints exactly one JSON object that has success = false and an error
   message, and exits with status 1. *)
C19_FailureIsStructuredError ==
    (pc = "exited" /\ (WrongArgumentCount \/ RaisedWhileProcessing)) =>
        /\ Len(returned.stdout) = 1
        /\ returned.stdout[1].success = FALSE
        /\ "error" \in DOMAIN returned.stdout[1]
        /\ returned.stdout[1].error # ""
        /\ returned.exit = 1

\* the chat wrapper without GEMINI_API_KEY: the ValueError becomes the object
C19_Witness ==
    /\ pc = "exited"
    /\ call.wrapper = "chat"
    /\ call.argc = 4
    /\ ~call.api_key
    /\ returned.exit = 1
    /\ returned.stdout[1].error = "GEMINI_API_KEY environment variable is required"

----------------------------------------------------------------------------
(* The error of analyze_document when no chunk succeeded (Spec) *)

\* every chunk of a document with at least one chunk has failed
AllChunksFailed ==
    /\ pc = "done"
    /\ Len(chunks) > 0
    /\ Len(outcomes) = Len(chunks)
    /\ \A i \in 1..Len(outcomes) : ChunkFailed(outcomes[i])

\* the result holds something besides one fixed message: a further key, or
\* a message made from the failures
CarriesFailureReasons ==
    \/ result.keys # {"error"}
    \/ result.error # "All chunk analyses failed. Check your API quota and document format."

(* C20: when all chunks have failed, the error that analyze_document returns
   carries the chunk-level failure reasons, one per failed chunk. *)
C20_ErrorCarriesChunkReasons ==
    AllChunksFailed => CarriesFailureReasons

----------------------------------------------------------------------------
(* Properties of the CrewAI-based classify_document (SpecCrew) *)

(* C21: for every output of the crew, a str or not, empty or of several
   words, classify_document returns exactly one label of the six; an output
   that is not a listed label gives OTHERS, and an empty answer raises
   nothing. *)
C21_CrewAlwaysOneCleanLabel ==
    (pc = "returned" /\ call.fn = "crew_classify_document" /\ call.api_key) =>
        /\ ~returned.raised
        /\ returned.value \in Labels
        /\ (\A l \in Labels : ~Contains(Upper(call.kickoff.text), l)) =>
              returned.value = OTHERS

----------------------------------------------------------------------------
(* _aggregate_reports as a pure transformation (SpecAgg) *)

(* C22: a call of _aggregate_reports leaves the chunk reports passed to it as
   they were (the same reports, clause lists and clause contents), and keeps
   nothing from one call to the next: the call that follows another one on
   the same reports returns what the first one returned. *)
C22_AggregateIsPure ==
    [][/\ reports' = reports
       /\ pc = "returned" => (pc' = "returned again" /\ again' = result)]_vars

\* two calls on two reports, a clause of the second one ranked first
C22_Witness ==
    /\ pc = "returned again"
    /\ Len(reports) = 2
    /\ "clauses" \in result.keys
    /\ Len(result.refs) >= 2
    /\ result.refs[1][1] = 2
    /\ again = result

----------------------------------------------------------------------------
(* Filtering before de-duplication (SpecAgg) *)

HighRiskArrival(k) == RiskIgnoringCase(ArrivedClause(k)) \in {HIGH, CRITICAL}

\* the k-th arrival is the first HIGH/CRITICAL clause with its signature
FirstHighRiskOfSignature(k) ==
    /\ HighRiskArrival(k)
    /\ \A j \in 1..(k - 1) :
          HighRiskArrival(j) =>
              StrippedKey(ArrivedClause(j)) # StrippedKey(ArrivedClause(k))

Survivors == {k \in 1..Len(Arrivals) : FirstHighRiskOfSignature(k)}

(* C23: a clause dropped for low severity does not register its signature
   and so never suppresses a later HIGH or CRITICAL clause of the same
   signature; the survivor of a signature is the first HIGH/CRITICAL clause
   carrying it, whatever the severity of later duplicates.  The report holds
   survivors only, each once, and all of them when they are at most six. *)
C23_FilterBeforeDedup ==
    (ReportReturned /\ pc = "returned") =>
        /\ \A k \in 1..Len(Arrivals) :
              InReport(Arrivals[k]) => k \in Survivors
        /\ \A i, j \in 1..Len(result.refs) :
              i # j => result.refs[i] # result.refs[j]
        /\ Cardinality(Survivors) <= 6 =>
              \A k \in Survivors : InReport(Arrivals[k])

\* LOW, HIGH, CRITICAL with one signature: the HIGH one is the survivor
C23_Witness ==
    /\ pc = "returned"
    /\ ReportReturned
    /\ Len(Arrivals) = 3
    /\ StrippedKey(ArrivedClause(1)) = StrippedKey(ArrivedClause(2))
    /\ StrippedKey(ArrivedClause(2)) = StrippedKey(ArrivedClause(3))
    /\ ArrivedClause(1).risk_level = LOW
    /\ ArrivedClause(2).risk_level = HIGH
    /\ ArrivedClause(3).risk_level = CRITICAL
    /\ InReport(Arrivals[2])
    /\ ~InReport(Arrivals[3])

----------------------------------------------------------------------------
(* Truncation after sorting (SpecAgg) *)

(* C24: the report keeps the top-ranked survivors: every de-duplicated
   HIGH/CRITICAL clause that is left out has a sort key
   (priority, page_number) greater than or equal to that of every clause of
   the report, and when at most 6 clauses survive de-duplication the report
   holds all of them. *)
C24_TopRankedSurvivorsKept ==
    (ReportReturned /\ pc = "returned") =>
        /\ \A k \in Survivors :
              ~InReport(Arrivals[k]) =>
                  \A i \in 1..Len(result.clauses) :
                      RankLeq(result.clauses[i], ArrivedClause(k))
        /\ Cardinality(Survivors) <= 6 =>
              Len(result.clauses) = Cardinality(Survivors)
        /\ Cardinality(Survivors) > 6 => Len(result.clauses) = 6

\* more than six survivors: one of the first six arrivals is left out and a
\* later arrival is in the report
C24_Witness ==
    /\ pc = "returned"
    /\ ReportReturned
    /\ Cardinality(Survivors) > 6
    /\ \E k \in Survivors : k <= 6 /\ ~InReport(Arrivals[k])
    /\ \E k \in Survivors : k > 6 /\ InReport(Arrivals[k])

----------------------------------------------------------------------------
(* The decision table of the summary (SpecAgg) *)

\* the sentences of the summary of the returned report
Sentences == {result.summary[i].text : i \in 1..Len(result.summary)}

Recommendations ==
    {"This document contains critical issues requiring immediate legal review and likely negotiation before signing.",
     "Multiple high-risk elements present - recommend thorough legal review before proceeding.",
     "Document contains some concerning provisions that should be reviewed with legal counsel."}

\* the recommendation the decision table gives for the retained clauses
Recommended(clauses) ==
    IF CountOf(clauses, CRITICAL) >= 1
        THEN "This document contains critical issues requiring immediate legal review and likely negotiation before signing."
    ELSE IF Len(clauses) > 3
        THEN "Multiple high-risk elements present - recommend thorough legal review before proceeding."
    ELSE "Document contains some concerning provisions that should be reviewed with legal counsel."

(* C25: the recommendation of the summary follows a fixed decision table over
   the retained clauses, exactly one branch applying: no retained clause
   gives the 'No high-risk clauses identified' sentence alone; at least one
   CRITICAL gives the 'critical issues' sentence; otherwise more than 3
   retained clauses give the 'Multiple high-risk elements' sentence;
   otherwise the 'some concerning provisions' sentence; the critical and
   high-risk counts stated add up to the stated number of concerning
   clauses. *)
C25_SummaryDecisionTable ==
    (ReportReturned /\ pc = "returned") =>
        /\ result.clauses = <<>> =>
              /\ Len(result.summary) = 1
              /\ Sentences = {"No high-risk clauses identified in the document based on the specified criteria."}
        /\ result.clauses # <<>> =>
              /\ Sentences \cap Recommendations = {Recommended(result.clauses)}
              /\ Cardinality({i \in 1..Len(result.summary) :
                                 result.summary[i].text \in Recommendations}) = 1
              /\ "No high-risk clauses identified in the document based on the specified criteria." \notin Sentences
              /\ \E i \in 1..Len(result.summary) :
                    /\ Len(result.summary[i].counts) = 3
                    /\ result.summary[i].counts[1] = Len(result.clauses)
                    /\ result.summary[i].counts[2] = CountOf(result.clauses, CRITICAL)
                    /\ result.summary[i].counts[3] = CountOf(result.clauses, HIGH)
                    /\ result.summary[i].counts[2] + result.summary[i].counts[3]
                          = result.summary[i].counts[1]

\* four retained clauses, one of them CRITICAL: the critical branch applies
C25_Witness ==
    /\ pc = "returned"
    /\ ReportReturned
    /\ Len(result.clauses) = 4
    /\ CountOf(result.clauses, CRITICAL) = 1
    /\ "This document contains critical issues requiring immediate legal review and likely negotiation before signing." \in Sentences

----------------------------------------------------------------------------
(* The two aggregators on the same reports (SpecTitled): result is the report
   of clause_extraction.py, again that of ce2.py *)

\* the key of clause_extraction.py: lower-cased trimmed title, page_number
TitleKey(clause) ==
    <<Strip(Lower(Get(clause.clause_title, <<>>))), GetPage(clause)>>

\* the k-th arrival is the first HIGH/CRITICAL clause with its title key
TitleSurvivors ==
    {k \in 1..Len(Arrivals) :
        /\ HighRiskArrival(k)
        /\ \A j \in 1..(k - 1) :
              HighRiskArrival(j) =>
                  TitleKey(ArrivedClause(j)) # TitleKey(ArrivedClause(k))}

BothReturned ==
    /\ pc = "compared"
    /\ "clauses" \in result.keys
    /\ "clauses" \in again.keys

(* C26: the title-keyed aggregator (clause_extraction.py) and the
   summary-keyed aggregator (ce2.py) are not equivalent: on the same chunk
   reports their clause lists are equal exactly when the two keys single out
   the same first occurrences, and there are reports on which they do not,
   so that the two clause lists differ. *)
C26_AggregatorsDifferByKey ==
    BothReturned =>
        /\ (result.refs = again.refs) <=> (TitleSurvivors = Survivors)
        /\ (result.clauses = again.clauses) <=> (TitleSurvivors = Survivors)

\* two HIGH clauses with one title and page and two summaries: one clause by
\* title, two by summary
C26_Witness ==
    /\ BothReturned
    /\ Len(Arrivals) = 2
    /\ TitleKey(ArrivedClause(1)) = TitleKey(ArrivedClause(2))
    /\ StrippedKey(ArrivedClause(1)) # StrippedKey(ArrivedClause(2))
    /\ Len(result.clauses) = 1
    /\ Len(again.clauses) = 2
    /\ result.clauses # again.clauses

----------------------------------------------------------------------------
(* Properties of chat_history (SpecChat) *)

\* question, answer, question, answer, ...
Alternates(history) ==
    /\ Len(history) % 2 = 0
    /\ \A i \in 1..Len(history) :
          history[i].type = IF i % 2 = 1 THEN "human" ELSE "ai"

\* the call just made was given a question that is not blank and its chain
\* gave an answer
Answered(invocation) ==
    /\ chatbot.rag_chain
    /\ \E i \in 1..Len(invocation.question) :
          invocation.question[i] \notin Whitespace
    /\ ~invocation.chain.raised

(* C27: after any sequence of answer_question calls on one chatbot,
   chat_history has even length and alternates question (HumanMessage) and
   answer (AIMessage); a successfully answered question adds exactly its
   pair; a call that returns an error message, or is given a blank question,
   leaves chat_history as it was. *)
C27_ChatHistoryInPairs ==
    /\ []Alternates(chatbot.chat_history)
    /\ [][/\ Answered(call') =>
                /\ chatbot'.chat_history =
                      chatbot.chat_history
                          \o <<[type |-> "human", content |-> call'.question],
                               [type |-> "ai", content |-> call'.chain.value]>>
                /\ returned' = <<call'.chain.value>>
          /\ ~Answered(call') =>
                chatbot'.chat_history = chatbot.chat_history]_vars

\* one answered question, then a call whose chain raised
C27_Witness ==
    /\ pc = "answered"
    /\ Len(chatbot.chat_history) = 2
    /\ call.chain.raised
    /\ call.question = <<"w","h","y">>
    /\ returned = <<"Error answering question: ", "quota exceeded">>

----------------------------------------------------------------------------
(* ingest_wrapper and the result of DocumentIngestor.ingest_document (SpecCli) *)

\* main of ingest_wrapper got as far as a result of ingest_document, and
\* that result reports a failure
IngestionReportedFailure ==
    /\ pc = "exited"
    /\ call.wrapper = "ingest"
    /\ call.argc = 3
    /\ ~call.ctor.raised
    /\ ~DocumentIngestorIngest(call.outcome).raised
    /\ ~DocumentIngestorIngest(call.outcome).value.success

(* C28: ingest_wrapper reports success = true only when the document was
   ingested: whenever the result of DocumentIngestor.ingest_document has
   success = false, the JSON the wrapper prints has success = false and the
   process exits with status 1. *)
C28_IngestFailureReported ==
    IngestionReportedFailure =>
        /\ Len(returned.stdout) = 1
        /\ returned.stdout[1].success = FALSE
        /\ returned.exit = 1

----------------------------------------------------------------------------
(* Properties of get_concise_page_summary (SpecPages) *)

(* C29: get_concise_page_summary(p) returns an error message without calling
   the LLM unless summarize_document has stored page summaries and
   1 <= p <= the number of stored summaries; when it answers, it condenses
   the stored summary of page p of the most recently summarised document,
   that is, of the p-th page of that document. *)
C29_ConciseSummaryOfPageP ==
    pc = "condensed" =>
        /\ ~(chatbot.page_summaries # <<>>
             /\ 1 <= call.page_number
             /\ call.page_number <= Len(chatbot.page_summaries)) =>
              /\ returned.message # ""
              /\ returned.llm_calls = 0
        /\ returned.message = "" =>
              returned.of = <<[document |-> pages.name, page |-> call.page_number]>>

----------------------------------------------------------------------------
(* Properties of summarize_long_document (SpecLong) *)

Ascending(s) == \A a, b \in 1..Len(s) : a < b => s[a] < s[b]

\* the run is in the map-reduce branch
InLongDocument == pc \in {"page", "master"} \/ call.master_calls > 0

(* C30: in summarize_long_document, used when page_count >= 10, the pages
   are summarised in ascending page index; a blank page is skipped; a page
   whose summarisation raises is skipped and the pages after it are still
   summarised; the master-summary call is made exactly once, after the last
   page, over the successful page summaries in page order. *)
C30_LongDocumentMapReduce ==
    /\ [](InLongDocument =>
            /\ call.page_count >= 10
            /\ Ascending(call.page_summaries)
            /\ \A k \in 1..Len(call.page_summaries) : call.page_summaries[k] < call.i
            /\ call.master_calls = IF pc = "returned" THEN 1 ELSE 0
            /\ pc = "master" => call.i = call.page_count
            /\ pc = "returned" =>
                  /\ call.i = call.page_count
                  /\ returned.error = "" => returned.over = call.page_summaries)
    /\ []((pc = "returned" /\ call.page_count >= 10) => call.master_calls = 1)
    /\ [][pc = "page" =>
            /\ pc' \in {"page", "master"}
            /\ call'.i = call.i + 1
            /\ call'.page_summaries =
                  IF call'.page = "text"
                      THEN call.page_summaries \o <<call.i>>
                      ELSE call.page_summaries]_vars

\* ten pages, some skipped as blank, some after an exception, the last one
\* summarised, and the master summary over the three summaries in page order
C30_Witness ==
    /\ pc = "returned"
    /\ call.page_count = 10
    /\ call.master_calls = 1
    /\ returned.error = ""
    /\ returned.over = <<1, 3, 9>>

====
